---- MODULE Spec2Model ----
(***************************************************************************)
(* Model of esrally/mechanic/telemetry.py: the Telemetry registry and the  *)
(* telemetry devices.  Every component has its own group of variables and  *)
(* its own specification; a specification holds the other groups at their  *)
(* constructor values.                                                     *)
(***************************************************************************)
EXTENDS Integers, Sequences, FiniteSets, TLC

VARIABLES
    \* ---- Telemetry (registry) ----
    devices,          \* Telemetry.devices: the ordered device list
    enabled_devices,  \* Telemetry.enabled_devices: cfg.opts("telemetry", "devices")
    event,            \* the Telemetry method being executed, or "none"
    idx,              \* position of the "for device in self.devices" loop
    active,           \* devices (by position) whose hook is executing
    called,           \* positions whose hook was invoked by the current call, in order
    returned,         \* positions whose hook has returned in the current call, in order
    opts,             \* the accumulator of instrument_candidate_env
    result,           \* "none" | "running" | "returned" | "raised"
    failed,           \* history: position of the device whose hook raised in this call, or 0
    \* ---- NodeStats ----
    gc_times_per_node, \* NodeStats.gc_times_per_node: None, or node name -> (young, old)
    ns_calls,         \* metrics-store calls made by the latest NodeStats hook
    ns_last,          \* the latest NodeStats hook: "init" | "start" | "stop"
    ns_outcome,       \* how it ended: "none" | "returned" | "raised"
    ns_prev,          \* history: <<hook, outcome>> of the hook before the latest
    ns_start,         \* history: GC times read by the latest completed start
    ns_end,           \* history: GC times read by the latest stop
    ns_missing,       \* history: the latest response had an entry without the GC fields
    ns_rerun,         \* history: "no", or the latest start directly followed a completed
                      \* start/stop run and read the "same" or a "changed" snapshot
    \* ---- MergeParts ----
    mp_dir,           \* the files of candidate.log.dir read by the latest on_benchmark_stop
    mp_calls,         \* metrics-store calls made by the latest on_benchmark_stop
    mp_done,          \* on_benchmark_stop has run
    \* ---- CpuUsage and SampleCpuUsage ----
    cpu_node,         \* CpuUsage.node: None or the node
    cpu_sampler,      \* CpuUsage.sampler: None or the sampler thread (its index)
    samplers,         \* the SampleCpuUsage threads created so far
    cpu_pc,           \* dispatch thread inside CpuUsage: "idle" | "joining"
    cpu_obs,          \* cpu_utilization_1s observations put so far: [sampler, node]
    cpu_joined,       \* history: samplers whose finish() has returned
    cpu_late,         \* history: samplers that put an observation after finish() returned
    cpu_quiet,        \* history: on_benchmark_stop returned and no start since
    cpu_lateAny,      \* history: an observation was put while cpu_quiet
    cpu_overwritten,  \* history: a start replaced a sampler that was still running
    cpu_attached,     \* history: None or the node of the latest attach_to_node
    \* ---- PerfStat ----
    perf_process,     \* PerfStat.process: None or the Popen object (index into procs)
    perf_node,        \* PerfStat.node: None or the node
    perf_log,         \* PerfStat.log: None or the file object (index into logs)
    procs,            \* the perf processes spawned so far
    logs,             \* the log files opened so far
    perf_last,        \* the latest PerfStat hook: "init" | "attach" | "detach"
    perf_outcome,     \* how it ended: "none" | "returned" | "raised"
    perf_prev,        \* history: <<hook, outcome>> of the hook before the latest
    perf_path,        \* history: what the wait of the latest detach met
    perf_warned,      \* the latest detach logged "perf stat did not terminate"
    perf_arg,         \* history: the node the latest attach or detach was delivered for
    perf_pending,     \* history: node -> attaches returned minus detaches delivered
    perf_unmatched,   \* history: a detach was delivered for a node with no attach left;
                      \* from then on perf_arg and perf_pending are no longer kept
    \* ---- EnvironmentInfo and ExternalEnvironmentInfo ----
    ei_device,        \* whose attach_to_cluster has run: "none" | "external" | "internal"
    ei_stats,         \* the nodes of client.nodes.stats(metric="_all") it read
    ei_info,          \* the nodes of client.nodes.info(node_id="_all") it read
    ei_calls,         \* add_meta_info calls made, in order
    ei_outcome,       \* "none" | "returned" | "raised"
    \* ---- IndexStats ----
    ix_stats,         \* stats["_all"]["primaries"] read by the latest on_benchmark_stop
    ix_calls,         \* metrics-store calls made, in order
    ix_outcome,       \* "none" | "returned"
    \* ---- IndexSize ----
    is_paths,         \* cfg "provisioning"/"local.data.paths": None or Some(list of paths)
    is_hooks,         \* hooks of the device invoked so far, in order
    is_trace,         \* calls to io.get_size, the metrics store and the listing, in order
    is_outcome,       \* "none" | "returned" | "raised": how the latest hook ended
    \* ---- DiskIo ----
    dio_node,         \* self.node: None or Some(node name)
    dio_process,      \* self.process: None or Some(node name), the process handle
    disk_start,       \* self.disk_start: None or Some(counters)
    process_start,    \* self.process_start: None or Some(counters)
    dio_calls,        \* metrics-store calls of the latest hook
    dio_last,         \* "init" | "attach" | "start" | "stop": the latest hook
    dio_outcome,      \* "none" | "returned" | "raised": how it ended
    dio_prev,         \* history: <<dio_last, dio_outcome>> before the latest hook
    disk_end,         \* history: disk counters read by the latest stop
    process_end,      \* history: process counters read by the latest stop
    dio_log,          \* history: mode messages logged since the latest start began
    dio_attached,     \* history: [last: the node of the latest attach_to_node or None,
                      \*           earlier: the other nodes attached before it]
    \* ---- FlightRecorder, JitCompiler, Gc (instrument_env) ----
    env_dir,          \* the log directory: "absent" | "present" | "uncreatable"
    env_args,         \* <<car name, candidate id>> of the latest instrument_candidate_env
    env_before,       \* history: env_dir when the latest call was made
    env_attempts,     \* history: io.ensure_dir calls made by the latest call
    env_results,      \* history: [pos, env] for each instrument_env that returned, in order
    env_returned,     \* what the latest call gave its caller: None or Some(mapping)
    env_memo,         \* history: <<command, car, candidate id>> -> the mapping first returned
    env_repeated      \* history: an earlier call with the same arguments has returned

regVars == <<devices, enabled_devices, event, idx, active, called, returned, opts, result,
            failed>>

nsVars == <<gc_times_per_node, ns_calls, ns_last, ns_outcome, ns_prev, ns_start, ns_end,
           ns_missing, ns_rerun>>

mpVars == <<mp_dir, mp_calls, mp_done>>

cpuVars == <<cpu_node, cpu_sampler, samplers, cpu_pc, cpu_obs, cpu_joined, cpu_late,
             cpu_quiet, cpu_lateAny, cpu_overwritten, cpu_attached>>

perfVars == <<perf_process, perf_node, perf_log, procs, logs, perf_last, perf_outcome,
              perf_prev, perf_path, perf_warned, perf_arg, perf_pending, perf_unmatched>>

eiVars == <<ei_device, ei_stats, ei_info, ei_calls, ei_outcome>>

ixVars == <<ix_stats, ix_calls, ix_outcome>>

isVars == <<is_paths, is_hooks, is_trace, is_outcome>>

dioVars == <<dio_node, dio_process, disk_start, process_start, dio_calls, dio_last,
            dio_outcome, dio_prev, disk_end, process_end, dio_log, dio_attached>>

envVars == <<env_dir, env_args, env_before, env_attempts, env_results, env_returned, env_memo,
            env_repeated>>

vars == <<regVars, nsVars, mpVars, cpuVars, perfVars, eiVars, ixVars, isVars, dioVars, envVars>>

\* the variables of the components other than the one a specification runs
notRegVars == <<nsVars, mpVars, cpuVars, perfVars, eiVars, ixVars, isVars, dioVars, envVars>>
notNsVars == <<regVars, mpVars, cpuVars, perfVars, eiVars, ixVars, isVars, dioVars, envVars>>
notMpVars == <<regVars, nsVars, cpuVars, perfVars, eiVars, ixVars, isVars, dioVars, envVars>>
notCpuVars == <<regVars, nsVars, mpVars, perfVars, eiVars, ixVars, isVars, dioVars, envVars>>
notPerfVars == <<regVars, nsVars, mpVars, cpuVars, eiVars, ixVars, isVars, dioVars, envVars>>
notEiVars == <<regVars, nsVars, mpVars, cpuVars, perfVars, ixVars, isVars, dioVars, envVars>>
notIxVars == <<regVars, nsVars, mpVars, cpuVars, perfVars, eiVars, isVars, dioVars, envVars>>
notIsVars == <<regVars, nsVars, mpVars, cpuVars, perfVars, eiVars, ixVars, dioVars, envVars>>
notDioVars == <<regVars, nsVars, mpVars, cpuVars, perfVars, eiVars, ixVars, isVars, envVars>>
notRegEnvVars == <<nsVars, mpVars, cpuVars, perfVars, eiVars, ixVars, isVars, dioVars>>

----------------------------------------------------------------------------
(* Strings are sequences of characters.                                    *)

\* Python's None and a present value, for fields that may hold either
None == {}
Some(v) == {v}
Get(o) == CHOOSE v \in o : TRUE

Space == <<" ">>

\* "%s %s" % (a, b)
FormatPair(a, b) == a \o Space \o b

EmptyMap == [k \in {} |-> <<>>]

----------------------------------------------------------------------------
(* Telemetry                                                               *)

MaxDevices == 3

LifecycleEvents ==
    {"attach_to_cluster", "attach_to_node", "on_benchmark_start",
     "on_benchmark_stop", "detach_from_node", "detach_from_cluster"}

Events == LifecycleEvents \cup {"instrument_env"}

\* The devices a registry may be constructed with: internal devices report the
\* command "internal", external ones their own command id; mock_env is what
\* the device's instrument_env returns.
Device(c, i, e) == [command |-> c, internal |-> i, mock_env |-> e]

DevicePool ==
    { Device("internal", TRUE,  [k \in {"X"} |-> <<"A">>]),
      Device("internal", TRUE,  [k \in {"Y"} |-> <<"C">>]),
      Device("internal", TRUE,  EmptyMap),
      Device("jfr",      FALSE, [k \in {"X"} |-> <<"B">>]),
      Device("gc",       FALSE, [k \in {"X", "Y"} |-> IF k = "X" THEN <<"A">> ELSE <<"B">>]),
      Device("gc",       FALSE, [k \in {"X"} |-> <<"C">>]) }

ConfiguredCommands == {"jfr", "gc", "perf"}

DeviceLists == UNION { [1..n -> DevicePool] : n \in 0..MaxDevices }

\* mutant: internal devices need configuration too
_enabled_ConfiguredOnly(device) == device.command \in enabled_devices

\* Telemetry._enabled
_enabled(device) == device.internal \/ device.command \in enabled_devices

\* mutant: a later device's value replaces the earlier one
MergeOpts_Overwrite(acc, additional_opts) ==
    [k \in DOMAIN acc \cup DOMAIN additional_opts |->
        IF k \in DOMAIN additional_opts THEN additional_opts[k] ELSE acc[k]]

\* the merge of one device's additional_opts into opts
MergeOpts(acc, additional_opts) ==
    [k \in DOMAIN acc \cup DOMAIN additional_opts |->
        IF k \in DOMAIN additional_opts
        THEN IF k \in DOMAIN acc
             THEN FormatPair(acc[k], additional_opts[k])
             ELSE additional_opts[k]
        ELSE acc[k]]

\* Telemetry.__init__
RegInit ==
    /\ devices \in DeviceLists
    /\ enabled_devices \in SUBSET ConfiguredCommands
    /\ event = "none"
    /\ idx = 0
    /\ active = {}
    /\ called = <<>>
    /\ returned = <<>>
    /\ opts = EmptyMap
    /\ result = "none"
    /\ failed = 0

\* a registry without devices, while another component is examined
RegIdle ==
    /\ devices = <<>>
    /\ enabled_devices = {}
    /\ event = "none"
    /\ idx = 0
    /\ active = {}
    /\ called = <<>>
    /\ returned = <<>>
    /\ opts = EmptyMap
    /\ result = "none"
    /\ failed = 0

\* mutant: hooks are started without waiting for the running one
LoopMayAdvance_Parallel == TRUE

\* The dispatch is synchronous: the loop does not advance while a hook runs.
LoopMayAdvance == active = {}

\* A caller invokes one of the Telemetry methods.
Call(e) ==
    /\ result # "running"
    /\ event' = e
    /\ idx' = 1
    /\ active' = {}
    /\ called' = <<>>
    /\ returned' = <<>>
    /\ opts' = EmptyMap
    /\ result' = "running"
    /\ failed' = 0
    /\ UNCHANGED <<devices, enabled_devices>>
    /\ UNCHANGED notRegVars

\* "if self._enabled(device)" is false: next device.
SkipDisabled ==
    /\ result = "running"
    /\ LoopMayAdvance
    /\ idx <= Len(devices)
    /\ ~_enabled(devices[idx])
    /\ idx' = idx + 1
    /\ UNCHANGED <<devices, enabled_devices, event, active, called, returned, opts, result, failed>>
    /\ UNCHANGED notRegVars

\* "if self._enabled(device)" is true: the hook of the device is entered.
EnterHook ==
    /\ result = "running"
    /\ LoopMayAdvance
    /\ idx <= Len(devices)
    /\ _enabled(devices[idx])
    /\ active' = active \cup {idx}
    /\ called' = Append(called, idx)
    /\ idx' = idx + 1
    /\ UNCHANGED <<devices, enabled_devices, event, returned, opts, result, failed>>
    /\ UNCHANGED notRegVars

\* The hook of device d returns; instrument_env's mapping is merged.
HookReturns ==
    /\ result = "running"
    /\ \E d \in active :
        /\ active' = active \ {d}
        /\ returned' = Append(returned, d)
        /\ opts' = IF event = "instrument_env"
                   THEN MergeOpts(opts, devices[d].mock_env)
                   ELSE opts
    /\ UNCHANGED <<devices, enabled_devices, event, idx, called, result, failed>>
    /\ UNCHANGED notRegVars

\* mutant: the loop catches the error and goes on with the next device
ResultAfterRaise_Swallowed == "running"

\* no try/except around the hook call: the error leaves the Telemetry method
ResultAfterRaise == "raised"

\* The hook of device d raises: nothing catches it, the call is aborted.
HookRaises ==
    /\ result = "running"
    /\ \E d \in active :
        /\ active' = active \ {d}
        /\ failed' = d
    /\ result' = ResultAfterRaise
    /\ UNCHANGED <<devices, enabled_devices, event, idx, called, returned, opts>>
    /\ UNCHANGED notRegVars

\* The loop is exhausted: the method returns (opts for instrument_candidate_env).
Return ==
    /\ result = "running"
    /\ LoopMayAdvance
    /\ idx > Len(devices)
    /\ result' = "returned"
    /\ UNCHANGED <<devices, enabled_devices, event, idx, active, called, returned, opts, failed>>
    /\ UNCHANGED notRegVars

RegNext ==
    \/ \E e \in Events : Call(e)
    \/ SkipDisabled
    \/ EnterHook
    \/ HookReturns
    \/ HookRaises
    \/ Return

----------------------------------------------------------------------------
(* NodeStats                                                               *)

MaxNodes == 2

\* node names; the order of the names is the order in which a response
\* lists the nodes
NodeNames == 1..MaxNodes

\* (young, old) cumulative collection times in ms a node may report
GcReadings == { <<500, 1000>>, <<1200, 2500>>, <<1300, 2600>> }

\* client.nodes.stats(metric="_all"): the nodes of the cluster; an entry is
\* Some((young, old)), or None when it lacks the jvm.gc.collectors fields
NodesStatsResponses ==
    UNION { [ns -> { Some(r) : r \in GcReadings } \cup { None }] : ns \in SUBSET NodeNames }

\* NodeStats.gc_times raises KeyError on an entry without the GC fields
GcTimesRaises(stats) == \E n \in DOMAIN stats : stats[n] = None

\* NodeStats.gc_times: node name -> (young, old)
gc_times(stats) == [n \in DOMAIN stats |-> Get(stats[n])]

\* mutant: the closing reading is reported instead of the difference
GcDelta_NoBaseline(gc_end, gc_start) == gc_end

\* young_gc_time / old_gc_time: end - start
GcDelta(gc_end, gc_start) == gc_end - gc_start

PutValueNodeLevel(node, name, value, unit) ==
    [op |-> "put_value_node_level", node |-> node, name |-> name, value |-> value, unit |-> unit]

PutValueClusterLevel(name, value, unit) ==
    [op |-> "put_value_cluster_level", node |-> 0, name |-> name, value |-> value, unit |-> unit]

PutCountClusterLevel(name, value) ==
    [op |-> "put_count_cluster_level", node |-> 0, name |-> name, value |-> value, unit |-> ""]

\* mutant: a node without a start reading is measured against a zero baseline
GcLoopBody_NoMembershipCheck(acc, node_name, baseline, gc_times_at_end) ==
    LET gc_times_start == IF node_name \in DOMAIN baseline THEN baseline[node_name] ELSE <<0, 0>>
        young_gc_time == gc_times_at_end[node_name][1] - gc_times_start[1]
        old_gc_time == gc_times_at_end[node_name][2] - gc_times_start[2]
    IN  [calls |-> acc.calls \o
               << [op |-> "put_value_node_level", node |-> node_name,
                   name |-> "node_young_gen_gc_time", value |-> young_gc_time, unit |-> "ms"],
                  [op |-> "put_value_node_level", node |-> node_name,
                   name |-> "node_old_gen_gc_time", value |-> old_gc_time, unit |-> "ms"] >>,
         young |-> acc.young + young_gc_time,
         old |-> acc.old + old_gc_time]

\* One iteration of "for node_name, gc_times_end in gc_times_at_end.items()";
\* acc holds the calls made so far and the two running totals.
GcLoopBody(acc, node_name, baseline, gc_times_at_end) ==
    IF node_name \in DOMAIN baseline
    THEN LET young_gc_time == GcDelta(gc_times_at_end[node_name][1], baseline[node_name][1])
             old_gc_time == GcDelta(gc_times_at_end[node_name][2], baseline[node_name][2])
         IN  [calls |-> acc.calls \o
                    << PutValueNodeLevel(node_name, "node_young_gen_gc_time", young_gc_time, "ms"),
                       PutValueNodeLevel(node_name, "node_old_gen_gc_time", old_gc_time, "ms") >>,
              young |-> acc.young + young_gc_time,
              old |-> acc.old + old_gc_time]
    ELSE acc  \* logger.warn only

\* the loop over the nodes 1..n of gc_times_at_end
RECURSIVE GcLoop(_, _, _)
GcLoop(n, baseline, gc_times_at_end) ==
    IF n = 0 THEN [calls |-> <<>>, young |-> 0, old |-> 0]
    ELSE LET before == GcLoop(n - 1, baseline, gc_times_at_end)
         IN  IF n \in DOMAIN gc_times_at_end
             THEN GcLoopBody(before, n, baseline, gc_times_at_end)
             ELSE before

\* all metrics-store calls of a completed NodeStats.on_benchmark_stop
NodeStatsStopCalls(baseline, gc_times_at_end) ==
    LET done == GcLoop(MaxNodes, baseline, gc_times_at_end)
    IN  done.calls \o
        << PutValueClusterLevel("node_total_young_gen_gc_time", done.young, "ms"),
           PutValueClusterLevel("node_total_old_gen_gc_time", done.old, "ms") >>

\* NodeStats.__init__
NsInit ==
    /\ gc_times_per_node = Some(EmptyMap)
    /\ ns_calls = <<>>
    /\ ns_last = "init"
    /\ ns_outcome = "none"
    /\ ns_prev = <<"init", "none">>
    /\ ns_start = None
    /\ ns_end = None
    /\ ns_missing = FALSE
    /\ ns_rerun = "no"

NsIdle == NsInit

\* NodeStats.on_benchmark_start
NodeStatsStart ==
    /\ \E stats \in NodesStatsResponses :
        /\ IF GcTimesRaises(stats)
           THEN /\ ns_outcome' = "raised"
                /\ UNCHANGED <<gc_times_per_node, ns_start>>
           ELSE /\ ns_outcome' = "returned"
                /\ gc_times_per_node' = Some(gc_times(stats))
                /\ ns_start' = Some(gc_times(stats))
        /\ ns_missing' = GcTimesRaises(stats)
        /\ ns_rerun' = IF /\ ns_last = "stop"
                          /\ ns_outcome = "returned"
                          /\ ns_prev = <<"start", "returned">>
                          /\ ~GcTimesRaises(stats)
                       THEN IF Some(gc_times(stats)) = ns_start THEN "same" ELSE "changed"
                       ELSE "no"
    /\ ns_last' = "start"
    /\ ns_prev' = <<ns_last, ns_outcome>>
    /\ ns_calls' = <<>>
    /\ ns_end' = None
    /\ UNCHANGED notNsVars

\* mutant: stop leaves the baseline in place
BaselineAfterStop_Kept(baseline) == baseline

\* "self.gc_times_per_node = None"
BaselineAfterStop(baseline) == None

\* NodeStats.on_benchmark_stop
NodeStatsStop ==
    /\ \E stats \in NodesStatsResponses :
        /\ IF GcTimesRaises(stats)
           THEN \* KeyError out of gc_times
                /\ ns_outcome' = "raised"
                /\ ns_calls' = <<>>
                /\ ns_end' = None
                /\ UNCHANGED gc_times_per_node
           ELSE IF gc_times_per_node = None /\ DOMAIN stats # {}
           THEN \* "node_name in None": TypeError in the first iteration
                /\ ns_outcome' = "raised"
                /\ ns_calls' = <<>>
                /\ ns_end' = Some(gc_times(stats))
                /\ UNCHANGED gc_times_per_node
           ELSE /\ ns_outcome' = "returned"
                /\ ns_calls' = NodeStatsStopCalls(
                                   IF gc_times_per_node = None THEN EmptyMap
                                   ELSE Get(gc_times_per_node), gc_times(stats))
                /\ ns_end' = Some(gc_times(stats))
                /\ gc_times_per_node' = BaselineAfterStop(gc_times_per_node)
        /\ ns_missing' = GcTimesRaises(stats)
    /\ ns_rerun' = IF ns_last = "start" THEN ns_rerun ELSE "no"
    /\ ns_last' = "stop"
    /\ ns_prev' = <<ns_last, ns_outcome>>
    /\ UNCHANGED ns_start
    /\ UNCHANGED notNsVars

NsNext ==
    \/ NodeStatsStart
    \/ NodeStatsStop

----------------------------------------------------------------------------
(* MergeParts                                                              *)

MaxLines == 2
MaxFiles == 2

\* A log line is a sequence of pieces of text.  The pieces the pattern
\* MERGE_TIME_LINE distinguishes: ": ", a run of digits, " msec to merge ",
\* a run of lowercase letters and spaces, " [", " docs]"; "text" is any other
\* text.  val holds the characters of a run.
Piece(kind, val) == [kind |-> kind, val |-> val]

MergeLine(duration, part, docs) ==
    << Piece("text", <<"INFO">>), Piece("colon", <<>>), Piece("digits", duration),
       Piece("msec", <<>>), Piece("label", part), Piece("lbr", <<>>),
       Piece("digits", docs), Piece("docs", <<>>) >>

DocValues == <<"doc", " ", "values">>
Postings == <<"postings">>

LinePool ==
    { MergeLine(<<"1", "0", "0">>, DocValues, <<"5", "0", "0">>),
      MergeLine(<<"3", "0">>, Postings, <<"7">>),
      << Piece("text", <<"INFO">>), Piece("colon", <<>>), Piece("text", <<"System starting up">>) >> }

LogFiles == UNION { [1..n -> LinePool] : n \in 0..MaxLines }

\* os.listdir(server_log_dir), each entry with the lines of the file
LogDirs == UNION { [1..n -> LogFiles] : n \in 0..MaxFiles }

\* MERGE_TIME_LINE = r": (\d+) msec to merge ([a-z ]+) \[(\d+) docs\]"
MERGE_TIME_LINE == <<"colon", "digits", "msec", "label", "lbr", "digits", "docs">>

MatchesAt(line, i) ==
    /\ i + Len(MERGE_TIME_LINE) - 1 <= Len(line)
    /\ \A j \in 1..Len(MERGE_TIME_LINE) : line[i + j - 1].kind = MERGE_TIME_LINE[j]

\* MERGE_TIME_LINE.search(line): the groups of the leftmost match, or None
Search(line) ==
    LET starts == { i \in 1..Len(line) : MatchesAt(line, i) }
    IN  IF starts = {} THEN None
        ELSE LET i == CHOOSE i \in starts : \A k \in starts : i <= k
             IN  Some(<<line[i + 1].val, line[i + 3].val, line[i + 5].val>>)

DigitValue(c) ==
    CASE c = "0" -> 0 [] c = "1" -> 1 [] c = "2" -> 2 [] c = "3" -> 3 [] c = "4" -> 4
      [] c = "5" -> 5 [] c = "6" -> 6 [] c = "7" -> 7 [] c = "8" -> 8 [] c = "9" -> 9

\* int(digits)
RECURSIVE int(_)
int(ds) ==
    IF ds = <<>> THEN 0
    ELSE 10 * int(SubSeq(ds, 1, Len(ds) - 1)) + DigitValue(ds[Len(ds)])

\* k.replace(" ", "_")
Replace(k) == [j \in 1..Len(k) |-> IF k[j] = " " THEN "_" ELSE k[j]]

\* merge_times is kept as the sequence of its entries [part, l] in insertion
\* order, l = [l[0], l[1]].
HasPart(merge_times, part) == \E j \in 1..Len(merge_times) : merge_times[j].part = part

\* mutant: the sums are overwritten by the latest line instead of added to
AddMergeTime_Overwrite(merge_times, part, duration_ms, num_docs) ==
    LET present == IF \E j \in 1..Len(merge_times) : merge_times[j].part = part
                   THEN merge_times
                   ELSE Append(merge_times, [part |-> part, l |-> <<0, 0>>])
    IN  [j \in 1..Len(present) |->
            IF present[j].part = part
            THEN [part |-> part, l |-> <<duration_ms, num_docs>>]
            ELSE present[j]]

\* lines 327-331: create the entry of a new part, then add to both sums
AddMergeTime(merge_times, part, duration_ms, num_docs) ==
    LET present == IF HasPart(merge_times, part)
                   THEN merge_times
                   ELSE Append(merge_times, [part |-> part, l |-> <<0, 0>>])
    IN  [j \in 1..Len(present) |->
            IF present[j].part = part
            THEN [part |-> part,
                  l |-> <<present[j].l[1] + duration_ms, present[j].l[2] + num_docs>>]
            ELSE present[j]]

\* the loop of _extract_merge_times over the first n lines
RECURSIVE ExtractLines(_, _)
ExtractLines(file, n) ==
    IF n = 0 THEN <<>>
    ELSE LET merge_times == ExtractLines(file, n - 1)
             match == Search(file[n])
         IN  IF match # None
             THEN AddMergeTime(merge_times, Get(match)[2], int(Get(match)[1]), int(Get(match)[3]))
             ELSE merge_times

\* mutant: the known category starts with zero sums although no line matched
_extract_merge_times_ZeroForUnmatched(file) ==
    LET found == ExtractLines(file, Len(file))
    IN  IF \E j \in 1..Len(found) : found[j].part = DocValues THEN found
        ELSE Append(found, [part |-> DocValues, l |-> <<0, 0>>])

\* MergeParts._extract_merge_times
_extract_merge_times(file) == ExtractLines(file, Len(file))

TimeMetric(metric_suffix) == <<"merge_parts_total_time_">> \o metric_suffix
DocsMetric(metric_suffix) == <<"merge_parts_total_docs_">> \o metric_suffix

\* the loop of _store_merge_times over the first n entries
RECURSIVE StoreEntries(_, _)
StoreEntries(merge_times, n) ==
    IF n = 0 THEN <<>>
    ELSE LET metric_suffix == Replace(merge_times[n].part)
             v == merge_times[n].l
         IN  StoreEntries(merge_times, n - 1) \o
             << PutValueClusterLevel(TimeMetric(metric_suffix), v[1], "ms"),
                PutCountClusterLevel(DocsMetric(metric_suffix), v[2]) >>

\* MergeParts._store_merge_times
_store_merge_times(merge_times) == StoreEntries(merge_times, Len(merge_times))

\* the loop of MergeParts.on_benchmark_stop over the first n files
RECURSIVE ScanFiles(_, _)
ScanFiles(dir, n) ==
    IF n = 0 THEN <<>>
    ELSE LET merge_times == _extract_merge_times(dir[n])
         IN  ScanFiles(dir, n - 1) \o
             (IF merge_times # <<>> THEN _store_merge_times(merge_times) ELSE <<>>)

\* MergeParts.__init__
MpInit ==
    /\ mp_dir = <<>>
    /\ mp_calls = <<>>
    /\ mp_done = FALSE

MpIdle == MpInit

\* MergeParts.on_benchmark_stop; the device keeps nothing between two calls,
\* so one call from the constructed state shows every behaviour
MergePartsStop ==
    /\ ~mp_done
    /\ \E dir \in LogDirs :
        /\ mp_dir' = dir
        /\ mp_calls' = ScanFiles(dir, Len(dir))
    /\ mp_done' = TRUE
    /\ UNCHANGED notMpVars

MpNext == MergePartsStop

----------------------------------------------------------------------------
(* CpuUsage and its sampler thread SampleCpuUsage                          *)

MaxSamplers == 2
MaxSamples == 2

\* the nodes the device may be attached to (node.node_name)
CpuNodes == {"rally-node0", "rally-node1"}

\* SampleCpuUsage.__init__; pc is the position of run(): "check" (the loop
\* condition), "measure" (inside sysstats.cpu_utilization), "put" (about to
\* call put_value_node_level), "done" (run() has ended)
\* History: afterStop counts the observations put while the flag was set,
\* lateMeasure tells that a measurement was started while the flag was set,
\* attached is the node of the latest attach_to_node when the thread started.
NewSampler(node, attached) ==
    [node |-> node, stop |-> FALSE, pc |-> "check", emitted |-> 0,
     faulted |-> FALSE, atFault |-> 0, afterStop |-> 0, lateMeasure |-> FALSE,
     attached |-> attached]

\* mutant: the flag is not looked at
LoopContinues_IgnoresStop(s) == TRUE

\* "while not self.stop"
LoopContinues(s) == ~samplers[s].stop

\* mutant: the loop body is repeated without reading the flag
PcAfterPut_SkipCheck == "measure"

\* after the put the loop condition is evaluated again
PcAfterPut == "check"

\* mutant: the observation carries the node the device is attached to now
ObservationNode_Current(s) == Get(cpu_node)

\* "node_name=self.node.node_name": the node the sampler was created with
ObservationNode(s) == samplers[s].node

\* mutant: finish() returns without waiting for the thread
JoinCompleted_NoWait(s) == TRUE

\* self.join() returns once run() of sampler s has ended
JoinCompleted(s) == samplers[s].pc = "done"

\* mutant: the exception is caught inside the loop, which goes on
AfterFault_RetryLoop == "check"

\* "except BaseException" encloses the whole loop: run() ends after logging
AfterFault == "done"

\* mutant: the node attached first is kept
NodeAfterAttach_KeepFirst(current, node) == IF current = None THEN Some(node) ELSE current

\* "self.node = node" (CpuUsage, DiskIo) and, in DiskIo, the process handle
\* set up for node.process.pid
NodeAfterAttach(current, node) == Some(node)

\* CpuUsage.__init__
CpuInit ==
    /\ cpu_node = None
    /\ cpu_sampler = None
    /\ samplers = <<>>
    /\ cpu_pc = "idle"
    /\ cpu_obs = {}
    /\ cpu_joined = {}
    /\ cpu_late = {}
    /\ cpu_quiet = FALSE
    /\ cpu_lateAny = FALSE
    /\ cpu_overwritten = FALSE
    /\ cpu_attached = None

CpuIdle == CpuInit

\* CpuUsage.attach_to_node
CpuAttachToNode(node) ==
    /\ cpu_pc = "idle"
    /\ cpu_node' = NodeAfterAttach(cpu_node, node)
    /\ cpu_attached' = Some(node)
    /\ UNCHANGED <<cpu_sampler, samplers, cpu_pc, cpu_obs, cpu_joined, cpu_late,
                   cpu_quiet, cpu_lateAny, cpu_overwritten>>
    /\ UNCHANGED notCpuVars

\* CpuUsage.on_benchmark_start with a node: a new sampler thread is started
CpuStartWithNode ==
    /\ cpu_pc = "idle"
    /\ cpu_node # None
    /\ Len(samplers) < MaxSamplers
    /\ samplers' = Append(samplers, NewSampler(Get(cpu_node), cpu_attached))
    /\ cpu_sampler' = Some(Len(samplers) + 1)
    /\ cpu_quiet' = FALSE
    /\ cpu_overwritten' = (\/ cpu_overwritten
                           \/ /\ cpu_sampler # None
                              /\ samplers[Get(cpu_sampler)].pc # "done")
    /\ UNCHANGED <<cpu_node, cpu_pc, cpu_obs, cpu_joined, cpu_late, cpu_lateAny,
                   cpu_attached>>
    /\ UNCHANGED notCpuVars

\* CpuUsage.on_benchmark_start without a node: nothing happens
CpuStartWithoutNode ==
    /\ cpu_pc = "idle"
    /\ cpu_node = None
    /\ UNCHANGED cpuVars
    /\ UNCHANGED notCpuVars

\* CpuUsage.on_benchmark_stop with a sampler: finish() sets the flag and joins
CpuStopBegin ==
    /\ cpu_pc = "idle"
    /\ cpu_sampler # None
    /\ samplers' = [samplers EXCEPT ![Get(cpu_sampler)].stop = TRUE]
    /\ cpu_pc' = "joining"
    /\ UNCHANGED <<cpu_node, cpu_sampler, cpu_obs, cpu_joined, cpu_late,
                   cpu_quiet, cpu_lateAny, cpu_overwritten, cpu_attached>>
    /\ UNCHANGED notCpuVars

\* join() returns, then finish() and on_benchmark_stop return
CpuStopReturn ==
    /\ cpu_pc = "joining"
    /\ JoinCompleted(Get(cpu_sampler))
    /\ cpu_pc' = "idle"
    /\ cpu_joined' = cpu_joined \cup cpu_sampler
    /\ cpu_quiet' = TRUE
    /\ UNCHANGED <<cpu_node, cpu_sampler, samplers, cpu_obs, cpu_late,
                   cpu_lateAny, cpu_overwritten, cpu_attached>>
    /\ UNCHANGED notCpuVars

\* CpuUsage.on_benchmark_stop without a sampler: returns at once
CpuStopWithoutSampler ==
    /\ cpu_pc = "idle"
    /\ cpu_sampler = None
    /\ cpu_quiet' = TRUE
    /\ UNCHANGED <<cpu_node, cpu_sampler, samplers, cpu_pc, cpu_obs, cpu_joined,
                   cpu_late, cpu_lateAny, cpu_overwritten, cpu_attached>>
    /\ UNCHANGED notCpuVars

SamplerUnchanged ==
    /\ UNCHANGED <<cpu_node, cpu_sampler, cpu_pc, cpu_joined, cpu_quiet, cpu_overwritten,
                   cpu_attached>>
    /\ UNCHANGED notCpuVars

\* "while not self.stop": the flag is read
SamplerCheck(s) ==
    /\ samplers[s].pc = "check"
    /\ \/ /\ ~LoopContinues(s)
          /\ samplers' = [samplers EXCEPT ![s].pc = "done"]
       \/ /\ LoopContinues(s)
          /\ samplers[s].emitted < MaxSamples
          /\ samplers' = [samplers EXCEPT ![s].pc = "measure",
                                          ![s].lateMeasure = @ \/ samplers[s].stop]
    /\ UNCHANGED <<cpu_obs, cpu_late, cpu_lateAny>>
    /\ SamplerUnchanged

\* sysstats.cpu_utilization returns
SamplerMeasured(s) ==
    /\ samplers[s].pc = "measure"
    /\ samplers' = [samplers EXCEPT ![s].pc = "put"]
    /\ UNCHANGED <<cpu_obs, cpu_late, cpu_lateAny>>
    /\ SamplerUnchanged

\* put_value_node_level stores the observation
SamplerPut(s) ==
    /\ samplers[s].pc = "put"
    /\ samplers[s].emitted < MaxSamples
    /\ samplers' = [samplers EXCEPT ![s].pc = PcAfterPut, ![s].emitted = @ + 1,
                                    ![s].afterStop = @ + (IF samplers[s].stop THEN 1 ELSE 0)]
    /\ cpu_obs' = cpu_obs \cup { [sampler |-> s, node |-> ObservationNode(s)] }
    /\ cpu_late' = IF s \in cpu_joined THEN cpu_late \cup {s} ELSE cpu_late
    /\ cpu_lateAny' = (cpu_lateAny \/ cpu_quiet)
    /\ SamplerUnchanged

\* sysstats.cpu_utilization or put_value_node_level raises
SamplerFault(s) ==
    /\ samplers[s].pc \in {"measure", "put"}
    /\ samplers' = [samplers EXCEPT ![s].pc = AfterFault, ![s].faulted = TRUE,
                                    ![s].atFault = samplers[s].emitted]
    /\ UNCHANGED <<cpu_obs, cpu_late, cpu_lateAny>>
    /\ SamplerUnchanged

\* one step of the thread of sampler s
SamplerStep(s) ==
    /\ s \in 1..Len(samplers)
    /\ \/ SamplerCheck(s)
       \/ SamplerMeasured(s)
       \/ SamplerPut(s)
       \/ SamplerFault(s)

\* every started thread is scheduled again and again, its calls return, and
\* the dispatch thread goes on once join() can return
CpuFairness ==
    /\ WF_vars(CpuStopReturn)
    /\ \A s \in 1..MaxSamplers : WF_vars(SamplerStep(s))

CpuNext ==
    \/ \E node \in CpuNodes : CpuAttachToNode(node)
    \/ CpuStartWithNode
    \/ CpuStartWithoutNode
    \/ CpuStopBegin
    \/ CpuStopReturn
    \/ CpuStopWithoutSampler
    \/ \E s \in 1..Len(samplers) : SamplerCheck(s)
    \/ \E s \in 1..Len(samplers) : SamplerMeasured(s)
    \/ \E s \in 1..Len(samplers) : SamplerPut(s)
    \/ \E s \in 1..Len(samplers) : SamplerFault(s)

----------------------------------------------------------------------------
(* PerfStat                                                                *)

MaxAttach == 2
MaxExitDelay == 11
MaxInterrupts == 2

\* self.process.wait(10.0)
WaitTimeout == 10

\* A spawned process is "running", "exited" (ended, not yet waited for: the
\* process id still exists) or "reaped" (waited for: the process id is gone).
\* interrupts counts the SIGINTs sent to it by os.kill.
NewProcess(node) == [node |-> node, state |-> "running", interrupts |-> 0]

\* open(log_file, "wb")
NewLog(node) == [node |-> node, open |-> TRUE]

\* mutant: TimeoutExpired is not caught
OnTimeoutExpired_Propagates == "raise"

\* "except subprocess.TimeoutExpired: logger.warn(...)"
OnTimeoutExpired == "warn"

\* PerfStat.__init__
PerfInit ==
    /\ perf_process = None
    /\ perf_node = None
    /\ perf_log = None
    /\ procs = <<>>
    /\ logs = <<>>
    /\ perf_last = "init"
    /\ perf_outcome = "none"
    /\ perf_prev = <<"init", "none">>
    /\ perf_path = "none"
    /\ perf_warned = FALSE
    /\ perf_arg = None
    /\ perf_pending = [n \in NodeNames |-> 0]
    /\ perf_unmatched = FALSE

PerfIdle == PerfInit

\* PerfStat.attach_to_node: the log is opened, perf is spawned
PerfAttachToNode(node) ==
    /\ Len(procs) < MaxAttach
    /\ logs' = Append(logs, NewLog(node))
    /\ perf_log' = Some(Len(logs) + 1)
    /\ procs' = Append(procs, NewProcess(node))
    /\ perf_process' = Some(Len(procs) + 1)
    /\ perf_node' = Some(node)
    /\ perf_last' = "attach"
    /\ perf_outcome' = "returned"
    /\ perf_prev' = <<perf_last, perf_outcome>>
    /\ perf_path' = "none"
    /\ perf_warned' = FALSE
    /\ IF perf_unmatched
       THEN UNCHANGED <<perf_arg, perf_pending>>
       ELSE /\ perf_arg' = Some(node)
            /\ perf_pending' = [perf_pending EXCEPT ![node] = @ + 1]
    /\ UNCHANGED perf_unmatched
    /\ UNCHANGED notPerfVars

\* PerfStat.attach_to_node when io.ensure_dir cannot create the log directory
PerfAttachSetupFailure ==
    /\ Len(procs) < MaxAttach
    /\ perf_last' = "attach"
    /\ perf_outcome' = "raised"
    /\ perf_prev' = <<perf_last, perf_outcome>>
    /\ perf_path' = "none"
    /\ perf_warned' = FALSE
    /\ UNCHANGED <<perf_process, perf_node, perf_log, procs, logs, perf_arg, perf_pending,
                   perf_unmatched>>
    /\ UNCHANGED notPerfVars

\* a perf process ends by itself (the profiled process went away)
PerfProcessExits(p) ==
    /\ procs[p].state = "running"
    /\ procs' = [procs EXCEPT ![p].state = "exited"]
    /\ UNCHANGED <<perf_process, perf_node, perf_log, logs, perf_last, perf_outcome,
                   perf_prev, perf_path, perf_warned, perf_arg, perf_pending,
                   perf_unmatched>>
    /\ UNCHANGED notPerfVars

DetachFrame ==
    /\ perf_last' = "detach"
    /\ perf_prev' = <<perf_last, perf_outcome>>
    /\ UNCHANGED <<perf_process, perf_node, perf_log>>
    /\ UNCHANGED notPerfVars

\* PerfStat.detach_from_node; the node is only logged.  The process answers
\* the interrupt after exit_delay time units.
PerfDetachFromNode(node, exit_delay) ==
    /\ perf_process # None => procs[Get(perf_process)].interrupts < MaxInterrupts
    /\ DetachFrame
    /\ IF perf_unmatched \/ perf_pending[node] = 0
       THEN /\ perf_unmatched' = TRUE
            /\ perf_arg' = None
            /\ perf_pending' = [n \in NodeNames |-> 0]
       ELSE /\ perf_arg' = Some(node)
            /\ perf_pending' = [perf_pending EXCEPT ![node] = @ - 1]
            /\ UNCHANGED perf_unmatched
    /\ IF perf_process = None
       THEN \* self.process.pid: AttributeError
            /\ perf_outcome' = "raised"
            /\ perf_path' = "none"
            /\ perf_warned' = FALSE
            /\ UNCHANGED <<procs, logs>>
       ELSE LET p == Get(perf_process) IN
            IF procs[p].state = "reaped"
            THEN \* os.kill: ProcessLookupError
                 /\ perf_outcome' = "raised"
                 /\ perf_path' = "no_such_process"
                 /\ perf_warned' = FALSE
                 /\ UNCHANGED <<procs, logs>>
            ELSE IF procs[p].state = "exited"
            THEN \* the signal is sent, wait() returns at once
                 /\ procs' = [procs EXCEPT ![p].interrupts = @ + 1, ![p].state = "reaped"]
                 /\ logs' = [logs EXCEPT ![Get(perf_log)].open = FALSE]
                 /\ perf_outcome' = "returned"
                 /\ perf_path' = "already_exited"
                 /\ perf_warned' = FALSE
            ELSE IF exit_delay <= WaitTimeout
            THEN /\ procs' = [procs EXCEPT ![p].interrupts = @ + 1, ![p].state = "reaped"]
                 /\ logs' = [logs EXCEPT ![Get(perf_log)].open = FALSE]
                 /\ perf_outcome' = "returned"
                 /\ perf_path' = "exited_in_time"
                 /\ perf_warned' = FALSE
            ELSE \* TimeoutExpired
                 /\ procs' = [procs EXCEPT ![p].interrupts = @ + 1]
                 /\ perf_path' = "timeout"
                 /\ IF OnTimeoutExpired = "warn"
                    THEN /\ perf_warned' = TRUE
                         /\ logs' = [logs EXCEPT ![Get(perf_log)].open = FALSE]
                         /\ perf_outcome' = "returned"
                    ELSE /\ perf_warned' = FALSE
                         /\ UNCHANGED logs
                         /\ perf_outcome' = "raised"

PerfNext ==
    \/ \E node \in NodeNames : PerfAttachToNode(node)
    \/ PerfAttachSetupFailure
    \/ \E p \in 1..Len(procs) : PerfProcessExits(p)
    \/ \E node \in NodeNames, exit_delay \in 0..MaxExitDelay : PerfDetachFromNode(node, exit_delay)

----------------------------------------------------------------------------
(* EnvironmentInfo, ExternalEnvironmentInfo, store_node_attribute_metadata *)

\* A response is a nested mapping; the node with name n is the n-th node of a
\* response.  Meta-info keys are sequences of the pieces they are formatted
\* from ("attribute_%s" % k is <<"attribute_", k>>).

\* the name of the n-th node of a response
NodeNamePool == <<"rally-node0", "rally-node1", "rally-node2">>

\* metrics_store.add_meta_info(scope, node_name, key, value); node "" is None
AddMetaInfo(scope, node, key, value) ==
    [scope |-> scope, node |-> node, key |-> key, value |-> value]

\* entries of stats["nodes"]: with and without the host field
StatsNode(n, with_host) ==
    IF with_host THEN [name |-> NodeNamePool[n], host |-> "127.0.0.1"]
    ELSE [name |-> NodeNamePool[n]]

NodesStatsHostResponses ==
    UNION { { [i \in 1..n |-> StatsNode(i, h[i])] : h \in [1..n -> BOOLEAN] } : n \in 0..MaxNodes }

FullOs == [name |-> "Linux", version |-> "4.2", available_processors |-> "8"]
FullJvm == [vm_vendor |-> "Oracle", version |-> "1.8"]

\* entries of info["nodes"], by the shape of the entry
InfoNode(n, shape) ==
    CASE shape = 1 -> [name |-> NodeNamePool[n], os |-> FullOs, jvm |-> FullJvm,
                       attributes |-> [k \in {"group"} |-> "cold"]]
      [] shape = 2 -> [name |-> NodeNamePool[n], os |-> FullOs, jvm |-> FullJvm,
                       attributes |-> [k \in {"group", "rack"} |-> IF k = "group" THEN "cold" ELSE "r1"]]
      [] shape = 3 -> [name |-> NodeNamePool[n], os |-> [name |-> "Linux", available_processors |-> "8"],
                       attributes |-> [k \in {"group"} |-> "hot"]]
      [] shape = 4 -> [name |-> NodeNamePool[n], jvm |-> [vm_vendor |-> "Oracle"]]

InfoShapes == {1, 2, 3, 4}

NodesInfoResponses ==
    UNION { { [i \in 1..n |-> InfoNode(i, sh[i])] : sh \in [1..n -> InfoShapes] } : n \in 0..MaxNodes }

\* the order in which the items of an attributes mapping are iterated
AttributeKeys == <<"group", "rack">>

\* client.info()["version"]
Revision == "abc123"
DistributionVersion == "5.0.0"

\* "value = value[k]" along path: Some(value), or None for a KeyError
RECURSIVE WalkPath(_, _)
WalkPath(value, path) ==
    IF path = <<>> THEN Some(value)
    ELSE IF Head(path) \in DOMAIN value
         THEN WalkPath(value[Head(path)], Tail(path))
         ELSE None

\* mutant: the except branch leaves the value empty instead of "unknown"
try_store_node_info_NoDefault(node, metric_key, path) ==
    LET found == WalkPath(node, path)
    IN  AddMetaInfo("node", node.name, <<metric_key>>,
                    IF found = None THEN "" ELSE Get(found))

\* ExternalEnvironmentInfo.try_store_node_info
try_store_node_info(node, metric_key, path) ==
    LET found == WalkPath(node, path)
    IN  AddMetaInfo("node", node.name, <<metric_key>>,
                    IF found = None THEN "unknown" ELSE Get(found))

\* mutant: the KeyError of a missing host is not caught
HostOf_Uncaught(node) == IF "host" \in DOMAIN node THEN Some(node.host) ELSE None

\* "try: host = node["host"] except KeyError: host = "unknown""; None would
\* be an exception that leaves the hook
HostOf(node) == IF "host" \in DOMAIN node THEN Some(node.host) ELSE Some("unknown")

\* the loop over stats["nodes"] for the first n nodes
RECURSIVE HostLoop(_, _)
HostLoop(stats, n) ==
    IF n = 0 THEN [calls |-> <<>>, raised |-> FALSE]
    ELSE LET before == HostLoop(stats, n - 1)
             host == HostOf(stats[n])
         IN  IF before.raised THEN before
             ELSE IF host = None THEN [calls |-> before.calls, raised |-> TRUE]
             ELSE [calls |-> before.calls \o
                       << AddMetaInfo("node", stats[n].name, <<"node_name">>, stats[n].name),
                          AddMetaInfo("node", stats[n].name, <<"host_name">>, Get(host)) >>,
                   raised |-> FALSE]

\* the loop over nodes_info for the first n nodes (ExternalEnvironmentInfo)
RECURSIVE TryStoreLoop(_, _)
TryStoreLoop(info, n) ==
    IF n = 0 THEN <<>>
    ELSE TryStoreLoop(info, n - 1) \o
         << try_store_node_info(info[n], "os_name", <<"os", "name">>),
            try_store_node_info(info[n], "os_version", <<"os", "version">>),
            try_store_node_info(info[n], "cpu_logical_cores", <<"os", "available_processors">>),
            try_store_node_info(info[n], "jvm_vendor", <<"jvm", "vm_vendor">>),
            try_store_node_info(info[n], "jvm_version", <<"jvm", "version">>) >>

\* the loop over nodes_info for the first n nodes (EnvironmentInfo):
\* node["jvm"]["vm_vendor"] and node["jvm"]["version"] raise KeyError
RECURSIVE JvmLoop(_, _)
JvmLoop(info, n) ==
    IF n = 0 THEN [calls |-> <<>>, raised |-> FALSE]
    ELSE LET before == JvmLoop(info, n - 1)
             vendor == WalkPath(info[n], <<"jvm", "vm_vendor">>)
             version == WalkPath(info[n], <<"jvm", "version">>)
         IN  IF before.raised THEN before
             ELSE IF vendor = None THEN [calls |-> before.calls, raised |-> TRUE]
             ELSE IF version = None
             THEN [calls |-> Append(before.calls,
                       AddMetaInfo("node", info[n].name, <<"jvm_vendor">>, Get(vendor))),
                   raised |-> TRUE]
             ELSE [calls |-> before.calls \o
                       << AddMetaInfo("node", info[n].name, <<"jvm_vendor">>, Get(vendor)),
                          AddMetaInfo("node", info[n].name, <<"jvm_version">>, Get(version)) >>,
                   raised |-> FALSE]

\* pseudo_cluster_attributes is kept as the sequence of its entries
\* [key, values] in insertion order.
AddPseudo(pseudo, attribute_key, v) ==
    IF \E j \in 1..Len(pseudo) : pseudo[j].key = attribute_key
    THEN [j \in 1..Len(pseudo) |->
            IF pseudo[j].key = attribute_key
            THEN [key |-> attribute_key, values |-> pseudo[j].values \cup {v}]
            ELSE pseudo[j]]
    ELSE Append(pseudo, [key |-> attribute_key, values |-> {v}])

\* the items of node["attributes"], the first m keys of AttributeKeys
RECURSIVE AttributeItems(_, _, _)
AttributeItems(acc, node, m) ==
    IF m = 0 THEN acc
    ELSE LET before == AttributeItems(acc, node, m - 1)
             k == AttributeKeys[m]
         IN  IF k \in DOMAIN node.attributes
             THEN [calls |-> Append(before.calls,
                       AddMetaInfo("node", node.name, <<"attribute_", k>>, node.attributes[k])),
                   pseudo |-> AddPseudo(before.pseudo, <<"attribute_", k>>, node.attributes[k])]
             ELSE before

\* the first loop of store_node_attribute_metadata over the first n nodes
RECURSIVE NodeAttributeLoop(_, _)
NodeAttributeLoop(nodes_info, n) ==
    IF n = 0 THEN [calls |-> <<>>, pseudo |-> <<>>]
    ELSE LET before == NodeAttributeLoop(nodes_info, n - 1)
         IN  IF "attributes" \in DOMAIN nodes_info[n]
             THEN AttributeItems(before, nodes_info[n], Len(AttributeKeys))
             ELSE before

\* mutant: every attribute is pushed up, agreed on or not
IsClusterAttribute_Always(v) == TRUE

\* "if len(v) == 1"
IsClusterAttribute(v) == Cardinality(v) = 1

\* the second loop of store_node_attribute_metadata over the first n entries
RECURSIVE ClusterAttributeLoop(_, _)
ClusterAttributeLoop(pseudo, n) ==
    IF n = 0 THEN <<>>
    ELSE ClusterAttributeLoop(pseudo, n - 1) \o
         (IF IsClusterAttribute(pseudo[n].values)
          THEN << AddMetaInfo("cluster", "", pseudo[n].key, Get(pseudo[n].values)) >>
          ELSE <<>>)

\* mutant: the cluster-level entries are written before the node-level ones
store_node_attribute_metadata_ClusterFirst(nodes_info) ==
    LET first == NodeAttributeLoop(nodes_info, Len(nodes_info))
    IN  ClusterAttributeLoop(first.pseudo, Len(first.pseudo)) \o first.calls

\* store_node_attribute_metadata
store_node_attribute_metadata(nodes_info) ==
    LET first == NodeAttributeLoop(nodes_info, Len(nodes_info))
    IN  first.calls \o ClusterAttributeLoop(first.pseudo, Len(first.pseudo))

\* the two cluster-level entries both devices start with
VersionCalls ==
    << AddMetaInfo("cluster", "", <<"source_revision">>, Revision),
       AddMetaInfo("cluster", "", <<"distribution_version">>, DistributionVersion) >>

\* EnvironmentInfo.__init__ / ExternalEnvironmentInfo.__init__
EiInit ==
    /\ ei_device = "none"
    /\ ei_stats = <<>>
    /\ ei_info = <<>>
    /\ ei_calls = <<>>
    /\ ei_outcome = "none"

EiIdle == EiInit

\* ExternalEnvironmentInfo.attach_to_cluster; the device keeps nothing
\* between two calls, so one call from the constructed state shows every
\* behaviour
ExternalAttachToCluster ==
    /\ ei_device = "none"
    /\ \E stats \in NodesStatsHostResponses, info \in NodesInfoResponses :
        LET hosts == HostLoop(stats, Len(stats))
        IN  /\ ei_stats' = stats
            /\ ei_info' = info
            /\ IF hosts.raised
               THEN /\ ei_calls' = VersionCalls \o hosts.calls
                    /\ ei_outcome' = "raised"
               ELSE /\ ei_calls' = VersionCalls \o hosts.calls \o
                                   TryStoreLoop(info, Len(info)) \o
                                   store_node_attribute_metadata(info)
                    /\ ei_outcome' = "returned"
    /\ ei_device' = "external"
    /\ UNCHANGED notEiVars

\* EnvironmentInfo.attach_to_cluster
InternalAttachToCluster ==
    /\ ei_device = "none"
    /\ \E info \in NodesInfoResponses :
        LET jvms == JvmLoop(info, Len(info))
        IN  /\ ei_info' = info
            /\ IF jvms.raised
               THEN /\ ei_calls' = VersionCalls \o jvms.calls
                    /\ ei_outcome' = "raised"
               ELSE /\ ei_calls' = VersionCalls \o jvms.calls \o
                                   store_node_attribute_metadata(info)
                    /\ ei_outcome' = "returned"
    /\ ei_stats' = <<>>
    /\ ei_device' = "internal"
    /\ UNCHANGED notEiVars

EiNext ==
    \/ ExternalAttachToCluster
    \/ InternalAttachToCluster

----------------------------------------------------------------------------
(* IndexStats                                                              *)

MaxStat == 1
StatValues == 0..MaxStat

\* the leaves directly below "segments"
SegmentScalars ==
    {"count", "memory_in_bytes", "doc_values_memory_in_bytes", "stored_fields_memory_in_bytes",
     "terms_memory_in_bytes", "norms_memory_in_bytes", "points_memory_in_bytes"}

\* the segment files of the path table, in its order
FileKinds ==
    <<"dii", "doc", "fdx", "dim", "fdt", "fnm", "dvd", "dvm", "tip", "tim", "si", "nvd", "nvm", "pos">>

FileKindSet == { FileKinds[i] : i \in 1..Len(FileKinds) }

\* p["segments"], by shape, every numeric leaf being v
SegmentsOf(shape, v) ==
    CASE shape = "count_only" -> [k \in {"count"} |-> v]
      [] shape = "scalars" -> [k \in SegmentScalars |-> v]
      [] shape = "all_files" ->
            [k \in SegmentScalars |-> v] @@
            ("file_sizes" :> [f \in FileKindSet |-> [k \in {"size_in_bytes"} |-> v]])
      [] shape = "some_files" ->
            [k \in SegmentScalars |-> v] @@
            ("file_sizes" :> [f \in {"dii", "pos"} |-> [k \in {"size_in_bytes"} |-> v]])
      [] shape = "files_without_size" ->
            [k \in SegmentScalars |-> v] @@
            ("file_sizes" :> [f \in FileKindSet |-> [k \in {"description"} |-> "Points"]])

SegmentShapes == {"absent", "count_only", "scalars", "all_files", "some_files", "files_without_size"}

\* p["merges"], by shape
MergesOf(shape, v) ==
    IF shape = "total_only"
    THEN [k \in {"total_time_in_millis"} |-> v]
    ELSE [k \in {"total_time_in_millis", "total_throttled_time_in_millis"} |-> v]

MergeShapes == {"absent", "total_only", "both"}

TimedGroups == {"indexing", "refresh", "flush"}

\* the one leaf read below each timed group
TimeLeaf(group) == IF group = "indexing" THEN "index_time_in_millis" ELSE "total_time_in_millis"

\* what decides a response: the shape of each group and the value of the
\* leaves below "segments" (sv) and below the other groups (ov)
StatsChoices ==
    [segments : SegmentShapes, merges : MergeShapes, timed : SUBSET TimedGroups,
     sv : StatValues, ov : StatValues]

\* stats["_all"]["primaries"] of client.indices.stats(...)
Primaries(c) ==
    (IF c.segments = "absent" THEN EmptyMap ELSE "segments" :> SegmentsOf(c.segments, c.sv)) @@
    (IF c.merges = "absent" THEN EmptyMap ELSE "merges" :> MergesOf(c.merges, c.ov)) @@
    [g \in c.timed |-> [k \in {TimeLeaf(g)} |-> c.ov]]

Stat(path, metric_key, unit) == [path |-> path, metric_key |-> metric_key, unit |-> unit]

FileStat(f) ==
    IF f = "si"
    THEN Stat(<<"segments", "file_sizes", "si", "size_in_bytes">>, "si_size_in_bytes", "byte")
    ELSE Stat(<<"segments", "file_sizes", f, "size_in_bytes">>,
              CASE f = "dii" -> "dii_size_in_bytes" [] f = "doc" -> "doc_size_in_bytes"
                [] f = "fdx" -> "fdx_size_in_bytes" [] f = "dim" -> "dim_size_in_bytes"
                [] f = "fdt" -> "fdt_size_in_bytes" [] f = "fnm" -> "fnm_size_in_bytes"
                [] f = "dvd" -> "dvd_size_in_bytes" [] f = "dvm" -> "dvm_size_in_bytes"
                [] f = "tip" -> "tip_size_in_bytes" [] f = "tim" -> "tim_size_in_bytes"
                [] f = "nvd" -> "nvd_size_in_bytes" [] f = "nvm" -> "nvm_size_in_bytes"
                [] f = "pos" -> "pos_size_in_bytes",
              "byte")

\* the add_metrics calls of on_benchmark_stop, in order; unit "" is unit=None
IndexStatsPaths ==
    << Stat(<<"segments", "count">>, "segments_count", ""),
       Stat(<<"segments", "memory_in_bytes">>, "segments_memory_in_bytes", "byte"),
       Stat(<<"segments", "doc_values_memory_in_bytes">>, "segments_doc_values_memory_in_bytes", "byte"),
       Stat(<<"segments", "stored_fields_memory_in_bytes">>, "segments_stored_fields_memory_in_bytes", "byte"),
       Stat(<<"segments", "terms_memory_in_bytes">>, "segments_terms_memory_in_bytes", "byte"),
       Stat(<<"segments", "norms_memory_in_bytes">>, "segments_norms_memory_in_bytes", "byte"),
       Stat(<<"segments", "points_memory_in_bytes">>, "segments_points_memory_in_bytes", "byte"),
       Stat(<<"merges", "total_time_in_millis">>, "merges_total_time", "ms"),
       Stat(<<"merges", "total_throttled_time_in_millis">>, "merges_total_throttled_time", "ms"),
       Stat(<<"indexing", "index_time_in_millis">>, "indexing_total_time", "ms"),
       Stat(<<"refresh", "total_time_in_millis">>, "refresh_total_time", "ms"),
       Stat(<<"flush", "total_time_in_millis">>, "flush_total_time", "ms") >> \o
    [i \in 1..Len(FileKinds) |-> FileStat(FileKinds[i])]

\* IndexStats.extract_value: Some(value), or None after the KeyError
extract_value(primaries, path) == WalkPath(primaries, path)

\* "if value:" is false for None and for 0
Truthy(value) == value # None /\ Get(value) # 0

\* IndexStats.add_metrics
add_metrics(value, metric_key, unit) ==
    IF Truthy(value)
    THEN IF unit # ""
         THEN << PutValueClusterLevel(metric_key, Get(value), unit) >>
         ELSE << PutCountClusterLevel(metric_key, Get(value)) >>
    ELSE <<>>

\* the first n add_metrics calls of on_benchmark_stop
RECURSIVE AddMetricsCalls(_, _)
AddMetricsCalls(p, n) ==
    IF n = 0 THEN <<>>
    ELSE AddMetricsCalls(p, n - 1) \o
         add_metrics(extract_value(p, IndexStatsPaths[n].path),
                     IndexStatsPaths[n].metric_key, IndexStatsPaths[n].unit)

\* IndexStats.__init__
IxInit ==
    /\ ix_stats = EmptyMap
    /\ ix_calls = <<>>
    /\ ix_outcome = "none"

IxIdle == IxInit

\* IndexStats.on_benchmark_stop; the device keeps nothing between two calls
IndexStatsStop ==
    /\ ix_outcome = "none"
    /\ \E c \in StatsChoices :
        /\ ix_stats' = Primaries(c)
        /\ ix_calls' = AddMetricsCalls(Primaries(c), Len(IndexStatsPaths))
    /\ ix_outcome' = "returned"
    /\ UNCHANGED notIxVars

IxNext == IndexStatsStop

----------------------------------------------------------------------------
(* IndexSize                                                               *)

MaxHooks == 3
MaxSize == 1

\* values of cfg.opts("provisioning", "local.data.paths", mandatory=False)
DataPathConfigs ==
    { None, Some(<<>>), Some(<<"/var/elasticsearch/data">>),
      Some(<<"/var/elasticsearch/data", "/mnt/data">>) }

\* io.get_size(data_path) returning size
GetSize(data_path, size) ==
    [op |-> "io.get_size", node |-> 0, name |-> <<data_path>>, value |-> size, unit |-> ""]

\* metrics_store.put_count_cluster_level(name, value, unit)
PutCountClusterLevelUnit(name, value, unit) ==
    [op |-> "put_count_cluster_level", node |-> 0, name |-> <<name>>, value |-> value, unit |-> unit]

\* process.run_subprocess_with_logging("find %s -ls" % data_path, header="index files:")
RunSubprocessWithLogging(data_path) ==
    [op |-> "process.run_subprocess_with_logging", node |-> 0,
     name |-> <<"find ", data_path, " -ls">>, value |-> 0, unit |-> ""]

\* mutant: the last configured path is used
DataPath_Last(data_paths) == data_paths[Len(data_paths)]

\* "data_path = data_paths[0]"
DataPath(data_paths) == data_paths[1]

\* mutant: the listing runs outside the "is not None" branch
DetachCalls_ListsAlways(data_paths, size) ==
    IF data_paths # None
    THEN << GetSize(DataPath(Get(data_paths)), size),
            PutCountClusterLevelUnit("final_index_size_bytes", size, "byte"),
            RunSubprocessWithLogging(DataPath(Get(data_paths))) >>
    ELSE << RunSubprocessWithLogging(".") >>

\* the calls of detach_from_cluster when data_paths[0] exists
DetachCalls(data_paths, size) ==
    IF data_paths # None
    THEN << GetSize(DataPath(Get(data_paths)), size),
            PutCountClusterLevelUnit("final_index_size_bytes", size, "byte"),
            RunSubprocessWithLogging(DataPath(Get(data_paths))) >>
    ELSE <<>>

\* IndexSize.__init__ with one of the configurations
IsInit ==
    /\ is_paths \in DataPathConfigs
    /\ is_hooks = <<>>
    /\ is_trace = <<>>
    /\ is_outcome = "none"

IsIdle ==
    /\ is_paths = None
    /\ is_hooks = <<>>
    /\ is_trace = <<>>
    /\ is_outcome = "none"

\* the hooks IndexSize inherits from TelemetryDevice: "pass"
IndexSizeInheritedHook(hook) ==
    /\ Len(is_hooks) < MaxHooks
    /\ is_hooks' = Append(is_hooks, hook)
    /\ is_outcome' = "returned"
    /\ UNCHANGED <<is_paths, is_trace>>
    /\ UNCHANGED notIsVars

\* IndexSize.detach_from_cluster; data_paths[0] of an empty list raises
\* IndexError
IndexSizeDetachFromCluster ==
    /\ Len(is_hooks) < MaxHooks
    /\ is_hooks' = Append(is_hooks, "detach_from_cluster")
    /\ IF is_paths # None /\ Get(is_paths) = <<>>
       THEN /\ is_outcome' = "raised"
            /\ UNCHANGED is_trace
       ELSE /\ \E size \in 0..MaxSize : is_trace' = is_trace \o DetachCalls(is_paths, size)
            /\ is_outcome' = "returned"
    /\ UNCHANGED is_paths
    /\ UNCHANGED notIsVars

IsNext ==
    \/ \E hook \in {"on_benchmark_start", "on_benchmark_stop"} : IndexSizeInheritedHook(hook)
    \/ IndexSizeDetachFromCluster

----------------------------------------------------------------------------
(* DiskIo                                                                  *)

MaxCounter == 1

\* what sysstats.disk_io_counters() can return: counters at one of a few
\* levels, twice as many bytes written as read
DiskCounters == { [read_bytes |-> c, write_bytes |-> 2 * c] : c \in 0..MaxCounter }

\* what sysstats.process_io_counters(process) can return: None where process
\* counters are unsupported
ProcessCounters == { None } \cup { Some(c) : c \in DiskCounters }

\* metrics_store.put_count_node_level(node_name, name, value, unit)
PutCountNodeLevel(node, name, value, unit) ==
    [op |-> "put_count_node_level", node |-> node, name |-> name, value |-> value, unit |-> unit]

\* "if self.process_start and process_end": a counters tuple is true
UseProcessCounters(p_start, p_end) == p_start # None /\ p_end # None

\* mutant: the whole-disk counters are always used
read_bytes_DiskOnly(p_start, d_start, p_end, d_end) ==
    IF d_start = None THEN None
    ELSE Some(d_end.read_bytes - Get(d_start).read_bytes)

\* DiskIo.read_bytes: Some(delta), or None for the AttributeError of
\* "self.disk_start.read_bytes" with disk_start None
read_bytes(p_start, d_start, p_end, d_end) ==
    IF UseProcessCounters(p_start, p_end)
    THEN Some(Get(p_end).read_bytes - Get(p_start).read_bytes)
    ELSE IF d_start = None THEN None
    ELSE Some(d_end.read_bytes - Get(d_start).read_bytes)

\* DiskIo.write_bytes, likewise
write_bytes(p_start, d_start, p_end, d_end) ==
    IF UseProcessCounters(p_start, p_end)
    THEN Some(Get(p_end).write_bytes - Get(p_start).write_bytes)
    ELSE IF d_start = None THEN None
    ELSE Some(d_end.write_bytes - Get(d_start).write_bytes)

\* "if self.process_start: logger.info(...) else: logger.warn(...)"
LoggedMode(p_start) == IF p_start # None THEN "accurate" ELSE "degraded"

\* DiskIo.__init__
DioInit ==
    /\ dio_node = None
    /\ dio_process = None
    /\ disk_start = None
    /\ process_start = None
    /\ dio_calls = <<>>
    /\ dio_last = "init"
    /\ dio_outcome = "none"
    /\ dio_prev = <<"init", "none">>
    /\ disk_end = None
    /\ process_end = None
    /\ dio_log = <<>>
    /\ dio_attached = [last |-> None, earlier |-> {}]

DioIdle == DioInit

\* what every hook does to the history
DioFrame(hook) ==
    /\ dio_last' = hook
    /\ dio_prev' = <<dio_last, dio_outcome>>
    /\ UNCHANGED notDioVars

\* DiskIo.attach_to_node
DiskIoAttachToNode(node) ==
    /\ dio_node' = NodeAfterAttach(dio_node, node)
    /\ dio_process' = NodeAfterAttach(dio_process, node)
    /\ dio_attached' = [last |-> Some(node),
                        earlier |-> (dio_attached.earlier \cup dio_attached.last) \ {node}]
    /\ dio_calls' = <<>>
    /\ dio_outcome' = "returned"
    /\ UNCHANGED <<disk_start, process_start, disk_end, process_end, dio_log>>
    /\ DioFrame("attach")

\* DiskIo.on_benchmark_start
DiskIoStart ==
    /\ IF dio_process # None
       THEN \E d \in DiskCounters, p \in ProcessCounters :
               /\ disk_start' = Some(d)
               /\ process_start' = p
               /\ dio_log' = << LoggedMode(p) >>
       ELSE /\ UNCHANGED <<disk_start, process_start>>
            /\ dio_log' = <<>>
    /\ dio_calls' = <<>>
    /\ dio_outcome' = "returned"
    /\ UNCHANGED <<dio_node, dio_process, disk_end, process_end, dio_attached>>
    /\ DioFrame("start")

\* DiskIo.on_benchmark_stop
DiskIoStop ==
    /\ IF dio_process # None
       THEN \E d_end \in DiskCounters, p_end \in ProcessCounters :
               LET written == write_bytes(process_start, disk_start, p_end, d_end)
                   read == read_bytes(process_start, disk_start, p_end, d_end)
               IN  /\ disk_end' = Some(d_end)
                   /\ process_end' = p_end
                   /\ IF written = None
                      THEN /\ dio_calls' = <<>>
                           /\ dio_outcome' = "raised"
                      ELSE IF read = None
                      THEN /\ dio_calls' = << PutCountNodeLevel(Get(dio_node),
                                                 "disk_io_write_bytes", Get(written), "byte") >>
                           /\ dio_outcome' = "raised"
                      ELSE /\ dio_calls' =
                                << PutCountNodeLevel(Get(dio_node), "disk_io_write_bytes",
                                                     Get(written), "byte"),
                                   PutCountNodeLevel(Get(dio_node), "disk_io_read_bytes",
                                                     Get(read), "byte") >>
                           /\ dio_outcome' = "returned"
       ELSE /\ dio_calls' = <<>>
            /\ dio_outcome' = "returned"
            /\ disk_end' = None
            /\ process_end' = None
    /\ UNCHANGED <<dio_node, dio_process, disk_start, process_start, dio_log, dio_attached>>
    /\ DioFrame("stop")

DioNext ==
    \/ \E node \in NodeNames : DiskIoAttachToNode(node)
    \/ DiskIoStart
    \/ DiskIoStop

----------------------------------------------------------------------------
(* FlightRecorder, JitCompiler, Gc: instrument_env under                   *)
(* Telemetry.instrument_candidate_env                                      *)

MaxEnvDevices == 2

\* cfg.opts("system", "challenge.root.dir"), cfg.opts("benchmarks", "metrics.log.dir")
ChallengeRootDir == "/rally/root"
MetricsLogDir == "logs"

\* the devices of this registry: the three instrumentation devices and an
\* internal device, which inherits TelemetryDevice.instrument_env
EnvDevicePool ==
    { Device("jfr", FALSE, EmptyMap), Device("jit", FALSE, EmptyMap),
      Device("gc", FALSE, EmptyMap), Device("internal", TRUE, EmptyMap) }

EnvCommands == {"jfr", "jit", "gc"}

EnvDeviceLists == UNION { [1..n -> EnvDevicePool] : n \in 0..MaxEnvDevices }

CarNames == {"defaults", "4gheap"}
CandidateIds == {"node0", "node1"}

\* "%s/%s" % (challenge.root.dir, metrics.log.dir)
LogRoot == <<ChallengeRootDir, "/", MetricsLogDir>>

\* io.ensure_dir(log_root): creates the directory and its parents if absent,
\* does nothing if it exists, raises if it cannot be created
ensure_dir(dir) ==
    IF dir = "uncreatable" THEN [ok |-> FALSE, dir |-> dir]
    ELSE [ok |-> TRUE, dir |-> "present"]

\* the suffix of a device's log file
LogSuffix(command) ==
    CASE command = "jfr" -> ".jfr" [] command = "jit" -> ".jit.log" [] command = "gc" -> ".gc.log"

\* mutant: the run id is left out of the file name
LogFile_NoCandidateId(command, car, candidate_id) ==
    LogRoot \o <<"/", car, LogSuffix(command)>>

\* "%s/%s-%s.jfr" % (log_root, car.name, candidate_id), and likewise
LogFile(command, car, candidate_id) ==
    LogRoot \o <<"/", car, "-", candidate_id, LogSuffix(command)>>

\* the flag string of each device around its log file
JavaOpts(command, log_file) ==
    CASE command = "jfr" ->
            <<"-XX:+UnlockDiagnosticVMOptions -XX:+UnlockCommercialFeatures -XX:+DebugNonSafepoints -XX:+FlightRecorder -XX:FlightRecorderOptions=disk=true,maxage=0s,maxsize=0,dumponexit=true,dumponexitpath=">>
            \o log_file \o <<" -XX:StartFlightRecording=defaultrecording=true">>
      [] command = "jit" ->
            <<"-XX:+UnlockDiagnosticVMOptions -XX:+TraceClassLoading -XX:+LogCompilation -XX:LogFile=">>
            \o log_file \o <<" -XX:+PrintAssembly">>
      [] command = "gc" ->
            <<"-Xloggc:">> \o log_file \o
            <<" -XX:+PrintGCDetails -XX:+PrintGCDateStamps -XX:+PrintGCTimeStamps  -XX:+PrintGCApplicationStoppedTime -XX:+PrintGCApplicationConcurrentTime  -XX:+PrintTenuringDistribution">>

\* device.instrument_env(car, candidate_id) with the directory in state dir:
\* raised, the directory afterwards, the ensure_dir calls made, the mapping
instrument_env(device, car, candidate_id, dir) ==
    IF device.internal
    THEN [raised |-> FALSE, dir |-> dir, ensured |-> 0, env |-> EmptyMap]
    ELSE LET made == ensure_dir(dir)
         IN  IF ~made.ok
             THEN [raised |-> TRUE, dir |-> made.dir, ensured |-> 1, env |-> EmptyMap]
             ELSE [raised |-> FALSE, dir |-> made.dir, ensured |-> 1,
                   env |-> [k \in {"ES_JAVA_OPTS"} |->
                              JavaOpts(device.command, LogFile(device.command, car, candidate_id))]]

\* the loop of instrument_candidate_env over the first n devices
RECURSIVE InstrumentLoop(_, _, _, _)
InstrumentLoop(n, car, candidate_id, dir) ==
    IF n = 0
    THEN [opts |-> EmptyMap, failed |-> 0, dir |-> dir, called |-> <<>>,
          returned |-> <<>>, attempts |-> 0, results |-> <<>>]
    ELSE LET before == InstrumentLoop(n - 1, car, candidate_id, dir)
             hook == instrument_env(devices[n], car, candidate_id, before.dir)
         IN  IF (before.failed # 0 /\ ResultAfterRaise = "raised") \/ ~_enabled(devices[n])
             THEN before
             ELSE IF hook.raised
             THEN [before EXCEPT !.failed = n, !.dir = hook.dir,
                                 !.called = Append(before.called, n),
                                 !.attempts = before.attempts + hook.ensured]
             ELSE [before EXCEPT !.opts = MergeOpts(before.opts, hook.env),
                                 !.dir = hook.dir,
                                 !.called = Append(before.called, n),
                                 !.returned = Append(before.returned, n),
                                 !.attempts = before.attempts + hook.ensured,
                                 !.results = Append(before.results, [pos |-> n, env |-> hook.env])]

\* mutant: the mapping built so far is handed back when a device fails
ReturnedOnRaise_Partial(built) == Some(built)

\* an exception leaves instrument_candidate_env: nothing is returned
ReturnedOnRaise(built) == None

\* what the memo holds after the results of one call
RECURSIVE Remember(_, _, _, _)
Remember(memo, results, n, args) ==
    IF n = 0 THEN memo
    ELSE LET earlier == Remember(memo, results, n - 1, args)
             key == <<devices[results[n].pos].command, args[1], args[2]>>
         IN  IF key \in DOMAIN earlier \/ devices[results[n].pos].internal
             THEN earlier
             ELSE [k \in DOMAIN earlier \cup {key} |->
                      IF k = key THEN results[n].env ELSE earlier[k]]

\* Telemetry.__init__ with instrumentation devices
EnvRegInit ==
    /\ devices \in EnvDeviceLists
    /\ enabled_devices \in SUBSET EnvCommands
    /\ event = "none"
    /\ idx = 0
    /\ active = {}
    /\ called = <<>>
    /\ returned = <<>>
    /\ opts = EmptyMap
    /\ result = "none"
    /\ failed = 0

\* the log directory and the history, before any call
EnvInit ==
    /\ env_dir \in {"absent", "present", "uncreatable"}
    /\ env_args = <<>>
    /\ env_before = "none"
    /\ env_attempts = 0
    /\ env_results = <<>>
    /\ env_returned = None
    /\ env_memo = EmptyMap
    /\ env_repeated = FALSE

EnvIdle ==
    /\ env_dir = "absent"
    /\ env_args = <<>>
    /\ env_before = "none"
    /\ env_attempts = 0
    /\ env_results = <<>>
    /\ env_returned = None
    /\ env_memo = EmptyMap
    /\ env_repeated = FALSE

\* Telemetry.instrument_candidate_env(car, candidate_id) over the
\* instrumentation devices, from call to return or raise
InstrumentCandidateEnv(car, candidate_id) ==
    LET done == InstrumentLoop(Len(devices), car, candidate_id, env_dir)
    IN  /\ event' = "instrument_env"
        /\ idx' = IF done.failed # 0 /\ ResultAfterRaise = "raised"
                  THEN done.failed + 1 ELSE Len(devices) + 1
        /\ active' = {}
        /\ called' = done.called
        /\ returned' = done.returned
        /\ opts' = done.opts
        /\ failed' = done.failed
        /\ result' = IF done.failed # 0 THEN "raised" ELSE "returned"
        /\ env_returned' = IF done.failed # 0 THEN ReturnedOnRaise(done.opts) ELSE Some(done.opts)
        /\ env_dir' = done.dir
        /\ env_args' = <<car, candidate_id>>
        /\ env_before' = env_dir
        /\ env_attempts' = done.attempts
        /\ env_results' = done.results
        /\ env_memo' = Remember(env_memo, done.results, Len(done.results), <<car, candidate_id>>)
        /\ env_repeated' = \E k \in DOMAIN env_memo : k[2] = car /\ k[3] = candidate_id
        /\ UNCHANGED <<devices, enabled_devices>>
        /\ UNCHANGED notRegEnvVars

EnvNext == \E car \in CarNames, candidate_id \in CandidateIds : InstrumentCandidateEnv(car, candidate_id)

----------------------------------------------------------------------------
(* Specifications                                                          *)

InitRegistry ==
    /\ RegInit
    /\ NsIdle
    /\ MpIdle
    /\ CpuIdle
    /\ PerfIdle
    /\ EiIdle
    /\ IxIdle
    /\ IsIdle
    /\ DioIdle
    /\ EnvIdle

SpecRegistry == InitRegistry /\ [][RegNext]_vars

InitNodeStats ==
    /\ NsInit
    /\ RegIdle
    /\ MpIdle
    /\ CpuIdle
    /\ PerfIdle
    /\ EiIdle
    /\ IxIdle
    /\ IsIdle
    /\ DioIdle
    /\ EnvIdle

SpecNodeStats == InitNodeStats /\ [][NsNext]_vars

InitMergeParts ==
    /\ MpInit
    /\ RegIdle
    /\ NsIdle
    /\ CpuIdle
    /\ PerfIdle
    /\ EiIdle
    /\ IxIdle
    /\ IsIdle
    /\ DioIdle
    /\ EnvIdle

SpecMergeParts == InitMergeParts /\ [][MpNext]_vars

InitCpuUsage ==
    /\ CpuInit
    /\ RegIdle
    /\ NsIdle
    /\ MpIdle
    /\ PerfIdle
    /\ EiIdle
    /\ IxIdle
    /\ IsIdle
    /\ DioIdle
    /\ EnvIdle

SpecCpuUsage == InitCpuUsage /\ [][CpuNext]_vars

SpecCpuUsageFair == InitCpuUsage /\ [][CpuNext]_vars /\ CpuFairness

InitPerfStat ==
    /\ PerfInit
    /\ RegIdle
    /\ NsIdle
    /\ MpIdle
    /\ CpuIdle
    /\ EiIdle
    /\ IxIdle
    /\ IsIdle
    /\ DioIdle
    /\ EnvIdle

SpecPerfStat == InitPerfStat /\ [][PerfNext]_vars

InitEnvironmentInfo ==
    /\ EiInit
    /\ RegIdle
    /\ NsIdle
    /\ MpIdle
    /\ CpuIdle
    /\ PerfIdle
    /\ IxIdle
    /\ IsIdle
    /\ DioIdle
    /\ EnvIdle

SpecEnvironmentInfo == InitEnvironmentInfo /\ [][EiNext]_vars

InitIndexStats ==
    /\ IxInit
    /\ RegIdle
    /\ NsIdle
    /\ MpIdle
    /\ CpuIdle
    /\ PerfIdle
    /\ EiIdle
    /\ IsIdle
    /\ DioIdle
    /\ EnvIdle

SpecIndexStats == InitIndexStats /\ [][IxNext]_vars

InitIndexSize ==
    /\ IsInit
    /\ RegIdle
    /\ NsIdle
    /\ MpIdle
    /\ CpuIdle
    /\ PerfIdle
    /\ EiIdle
    /\ IxIdle
    /\ DioIdle
    /\ EnvIdle

SpecIndexSize == InitIndexSize /\ [][IsNext]_vars

InitDiskIo ==
    /\ DioInit
    /\ RegIdle
    /\ NsIdle
    /\ MpIdle
    /\ CpuIdle
    /\ PerfIdle
    /\ EiIdle
    /\ IxIdle
    /\ IsIdle
    /\ EnvIdle

SpecDiskIo == InitDiskIo /\ [][DioNext]_vars

InitInstrumentEnv ==
    /\ EnvRegInit
    /\ EnvInit
    /\ NsIdle
    /\ MpIdle
    /\ CpuIdle
    /\ PerfIdle
    /\ EiIdle
    /\ IxIdle
    /\ IsIdle
    /\ DioIdle

SpecInstrumentEnv == InitInstrumentEnv /\ [][EnvNext]_vars

\* CpuUsage and DiskIo share no state: each is driven from its constructed
\* state while the other one is left as constructed
InitSingleNode ==
    /\ CpuInit
    /\ DioInit
    /\ RegIdle
    /\ NsIdle
    /\ MpIdle
    /\ PerfIdle
    /\ EiIdle
    /\ IxIdle
    /\ IsIdle
    /\ EnvIdle

SingleNodeNext ==
    \/ DioIdle /\ CpuNext
    \/ CpuIdle /\ DioNext

SpecSingleNode == InitSingleNode /\ [][SingleNodeNext]_vars

----------------------------------------------------------------------------
(* Properties of the registry                                              *)

Positions == [i \in 1..Len(devices) |-> i]

\* the positions of the enabled devices, in registration order
EnabledPositions == SelectSeq(Positions, LAMBDA i : _enabled(devices[i]))

\* the values the enabled devices contribute for key k, in registration order
Contributions(k) ==
    LET having == SelectSeq(EnabledPositions, LAMBDA i : k \in DOMAIN devices[i].mock_env)
    IN  [j \in 1..Len(having) |-> devices[having[j]].mock_env[k]]

RECURSIVE JoinWithSpace(_)
JoinWithSpace(values) ==
    IF Len(values) = 1 THEN values[1]
    ELSE JoinWithSpace(SubSeq(values, 1, Len(values) - 1)) \o <<" ">> \o values[Len(values)]

ContributedKeys == UNION { DOMAIN devices[EnabledPositions[j]].mock_env : j \in 1..Len(EnabledPositions) }

NumSpaces(str) == Cardinality({ j \in 1..Len(str) : str[j] = " " })

\* C1: when instrument_candidate_env returns, the key set of the mapping is the
\* union of the keys the enabled devices contributed, and the value of each key
\* is the contributed values joined by exactly one space in registration order
\* (a key with one contributor keeps that value unchanged).
C1_MergedOverrides ==
    (event = "instrument_env" /\ result = "returned") =>
        /\ DOMAIN opts = ContributedKeys
        /\ \A k \in DOMAIN opts :
            /\ opts[k] = JoinWithSpace(Contributions(k))
            /\ NumSpaces(opts[k]) = Len(Contributions(k)) - 1
            /\ Len(Contributions(k)) = 1 => opts[k] = Contributions(k)[1]

\* a key contributed by two devices and a key contributed by one, merged
C1_Witness ==
    /\ event = "instrument_env"
    /\ result = "returned"
    /\ \E k1, k2 \in DOMAIN opts :
        /\ Len(Contributions(k1)) >= 2
        /\ Len(Contributions(k2)) = 1

\* C2: a device's hook is invoked (and its environment contribution merged) if
\* and only if the device is internal or its command id is in the enabled set.
C2_InvokedIffEnabled ==
    /\ \A j \in 1..Len(called) :
          devices[called[j]].internal \/ devices[called[j]].command \in enabled_devices
    /\ result = "returned" =>
          /\ { called[j] : j \in 1..Len(called) } =
                { i \in 1..Len(devices) :
                    devices[i].internal \/ devices[i].command \in enabled_devices }
          /\ event = "instrument_env" =>
                DOMAIN opts = UNION { DOMAIN devices[i].mock_env :
                    i \in { i \in 1..Len(devices) :
                        devices[i].internal \/ devices[i].command \in enabled_devices } }

\* an internal device is called although nothing is configured, next to an
\* external device that is not configured and is not called
C2_Witness ==
    /\ result = "returned"
    /\ event \in LifecycleEvents
    /\ enabled_devices = {}
    /\ \E i, j \in 1..Len(devices) :
        /\ devices[i].internal
        /\ ~devices[j].internal
        /\ i \in { called[n] : n \in 1..Len(called) }
        /\ j \notin { called[n] : n \in 1..Len(called) }

\* C3: within one lifecycle event the hooks of the enabled devices are called
\* once each, in registration order, and a hook starts only after the hooks of
\* all earlier devices have returned (at most one hook runs at a time); when
\* the event returns, every enabled device has been called exactly once.
C3_OrderedSequentialDispatch ==
    event \in LifecycleEvents =>
        /\ Cardinality(active) <= 1
        /\ \A m, n \in 1..Len(called) : m < n => called[m] < called[n]
        /\ active # {} =>
              /\ active = { called[Len(called)] }
              /\ returned = SubSeq(called, 1, Len(called) - 1)
        /\ (active = {} /\ result = "running") => returned = called
        /\ result = "returned" => (called = EnabledPositions /\ returned = called)

\* a lifecycle event returned after calling two devices and skipping one
C3_Witness ==
    /\ event \in LifecycleEvents
    /\ result = "returned"
    /\ Len(called) >= 2
    /\ Len(called) < Len(devices)

----------------------------------------------------------------------------
(* Properties of NodeStats                                                 *)

\* the number of calls in a call sequence that equal c
Occurrences(calls, c) == Cardinality({ j \in 1..Len(calls) : calls[j] = c })

RECURSIVE SumOver(_, _)
SumOver(S, f) ==
    IF S = {} THEN 0
    ELSE LET x == CHOOSE x \in S : TRUE IN f[x] + SumOver(S \ {x}, f)

\* a stop that completed directly after a completed start
StartThenStop ==
    /\ ns_last = "stop"
    /\ ns_outcome = "returned"
    /\ ns_prev = <<"start", "returned">>

NodesInBoth == DOMAIN Get(ns_start) \cap DOMAIN Get(ns_end)

YoungDelta == [n \in NodesInBoth |-> Get(ns_end)[n][1] - Get(ns_start)[n][1]]
OldDelta == [n \in NodesInBoth |-> Get(ns_end)[n][2] - Get(ns_start)[n][2]]

\* C4: after start then stop, every node present in both snapshots is reported
\* with young = young_end - young_start and old = old_end - old_start (ms) at
\* node level, and the two cluster-level totals are the sums of these deltas
\* over exactly the nodes present in both snapshots.
C4_GcDeltasAndTotals ==
    StartThenStop =>
        /\ \A n \in NodesInBoth :
            /\ Occurrences(ns_calls,
                   PutValueNodeLevel(n, "node_young_gen_gc_time", YoungDelta[n], "ms")) = 1
            /\ Occurrences(ns_calls,
                   PutValueNodeLevel(n, "node_old_gen_gc_time", OldDelta[n], "ms")) = 1
        /\ Occurrences(ns_calls, PutValueClusterLevel("node_total_young_gen_gc_time",
                   SumOver(NodesInBoth, YoungDelta), "ms")) = 1
        /\ Occurrences(ns_calls, PutValueClusterLevel("node_total_old_gen_gc_time",
                   SumOver(NodesInBoth, OldDelta), "ms")) = 1
        /\ Cardinality({ j \in 1..Len(ns_calls) : ns_calls[j].op = "put_value_cluster_level" }) = 2
        /\ Cardinality(NodesInBoth) = 1 =>
              \A n \in NodesInBoth :
                  /\ Occurrences(ns_calls, PutValueClusterLevel(
                         "node_total_young_gen_gc_time", YoungDelta[n], "ms")) = 1
                  /\ Occurrences(ns_calls, PutValueClusterLevel(
                         "node_total_old_gen_gc_time", OldDelta[n], "ms")) = 1

\* two nodes with different non-zero deltas were reported
C4_Witness ==
    /\ StartThenStop
    /\ Cardinality(NodesInBoth) >= 2
    /\ \E m, n \in NodesInBoth : YoungDelta[m] > 0 /\ YoungDelta[n] > YoungDelta[m]

\* the nodes that joined between the start and the stop
JoinedNodes == DOMAIN Get(ns_end) \ DOMAIN Get(ns_start)

\* C5: a node present at stop but not at start produces no node-level
\* observation, contributes nothing to the totals and does not make stop fail;
\* the other nodes are still reported.
C5_JoinedNodeSkipped ==
    (/\ ns_last = "stop"
     /\ ns_prev = <<"start", "returned">>
     /\ ns_end # None
     /\ JoinedNodes # {}) =>
        /\ ns_outcome = "returned"
        /\ \A j \in 1..Len(ns_calls) : ns_calls[j].node \notin JoinedNodes
        /\ \A n \in NodesInBoth :
              \E j \in 1..Len(ns_calls) :
                  ns_calls[j].op = "put_value_node_level" /\ ns_calls[j].node = n
        /\ \E j \in 1..Len(ns_calls) :
              ns_calls[j] = PutValueClusterLevel("node_total_young_gen_gc_time",
                                SumOver(NodesInBoth, YoungDelta), "ms")
        /\ \E j \in 1..Len(ns_calls) :
              ns_calls[j] = PutValueClusterLevel("node_total_old_gen_gc_time",
                                SumOver(NodesInBoth, OldDelta), "ms")

\* one node joined mid-run next to a node measured from the start
C5_Witness ==
    /\ StartThenStop
    /\ JoinedNodes # {}
    /\ NodesInBoth # {}
    /\ \E n \in JoinedNodes : Get(ns_end)[n][1] > 0

----------------------------------------------------------------------------
(* Properties of MergeParts                                                *)

\* the positions <<file, line>> of the scanned lines that match the pattern
MatchingLines == { p \in { <<f, i>> : f \in 1..Len(mp_dir), i \in 1..MaxLines } :
                     /\ p[2] <= Len(mp_dir[p[1]])
                     /\ Search(mp_dir[p[1]][p[2]]) # None }

LabelAt(p) == Get(Search(mp_dir[p[1]][p[2]]))[2]
ElapsedAt(p) == int(Get(Search(mp_dir[p[1]][p[2]]))[1])
DocCountAt(p) == int(Get(Search(mp_dir[p[1]][p[2]]))[3])

MatchedLabels == { LabelAt(p) : p \in MatchingLines }
LinesOf(label) == { p \in MatchingLines : LabelAt(p) = label }

TotalElapsed(label) == SumOver(LinesOf(label), [p \in LinesOf(label) |-> ElapsedAt(p)])
TotalDocs(label) == SumOver(LinesOf(label), [p \in LinesOf(label) |-> DocCountAt(p)])

RECURSIVE Underscored(_)
Underscored(label) ==
    IF label = <<>> THEN <<>>
    ELSE <<IF Head(label) = " " THEN "_" ELSE Head(label)>> \o Underscored(Tail(label))

CallsNamed(calls, name) == { j \in 1..Len(calls) : calls[j].name = name }

\* one value observation (ms) and one count observation for the label, each
\* carrying the total over all scanned lines of that label
OnePairWithTotals(label) ==
    /\ Cardinality(CallsNamed(mp_calls, <<"merge_parts_total_time_">> \o Underscored(label))) = 1
    /\ Cardinality(CallsNamed(mp_calls, <<"merge_parts_total_docs_">> \o Underscored(label))) = 1
    /\ \E j \in 1..Len(mp_calls) :
          mp_calls[j] = [op |-> "put_value_cluster_level", node |-> 0,
                         name |-> <<"merge_parts_total_time_">> \o Underscored(label),
                         value |-> TotalElapsed(label), unit |-> "ms"]
    /\ \E j \in 1..Len(mp_calls) :
          mp_calls[j] = [op |-> "put_count_cluster_level", node |-> 0,
                         name |-> <<"merge_parts_total_docs_">> \o Underscored(label),
                         value |-> TotalDocs(label), unit |-> ""]

\* C6: over one log file, every label matched by at least one line gets a
\* cluster-level value merge_parts_total_time_<label with _ for spaces> equal
\* to the sum of the elapsed ms of its matching lines (unit ms) and a
\* cluster-level count merge_parts_total_docs_<suffix> equal to the sum of
\* their document counts; non-matching lines change neither sum.
C6_SingleFileSums ==
    (mp_done /\ Len(mp_dir) = 1) => \A label \in MatchedLabels : OnePairWithTotals(label)

\* one file in which two lines match the label "doc values"
C6_Witness ==
    /\ mp_done
    /\ Len(mp_dir) = 1
    /\ Cardinality(LinesOf(DocValues)) = 2
    /\ \E j \in 1..Len(mp_calls) : mp_calls[j].value = 200

\* C7 (as claimed): over several files the sums are accumulated per label
\* across all files and one value and one count observation are reported per
\* label, carrying the total over all files.
C7_OnePairPerLabelAcrossFiles ==
    mp_done => \A label \in MatchedLabels : OnePairWithTotals(label)

\* C8: no sink call at all when no line of any file matches, and never an
\* observation for a label that matched no line.
C8_NothingForUnmatched ==
    mp_done =>
        /\ MatchingLines = {} => mp_calls = <<>>
        /\ \A j \in 1..Len(mp_calls) :
              \E label \in MatchedLabels :
                  mp_calls[j].name \in { <<"merge_parts_total_time_">> \o Underscored(label),
                                         <<"merge_parts_total_docs_">> \o Underscored(label) }

\* two files with lines were scanned, none of the lines matches, nothing is reported
C8_Witness ==
    /\ mp_done
    /\ Len(mp_dir) = 2
    /\ \A f \in 1..Len(mp_dir) : Len(mp_dir[f]) >= 1
    /\ MatchingLines = {}
    /\ mp_calls = <<>>

----------------------------------------------------------------------------
(* Properties of CpuUsage                                                  *)

C10_SamplerFaultContained ==
    \A s \in 1..Len(samplers) :
        samplers[s].faulted =>
            /\ samplers[s].pc = "done"
            /\ samplers[s].emitted = samplers[s].atFault
            /\ (cpu_pc = "joining" /\ cpu_sampler = Some(s)) => ENABLED CpuStopReturn

\* a sampler faulted after an observation, and the stop after it has returned
C10_Witness ==
    \E s \in cpu_joined :
        /\ samplers[s].faulted
        /\ samplers[s].emitted >= 1
        /\ cpu_pc = "idle"

\* the sampler threads that have been started and have not ended
RunningSamplers == { s \in 1..Len(samplers) : samplers[s].pc # "done" }

\* C11 (as claimed): for every sequence of attach_to_node, on_benchmark_start
\* and on_benchmark_stop, two starts without a stop included, at most one
\* sampler thread started by the device is running.
C11_AtMostOneSampler == Cardinality(RunningSamplers) <= 1

----------------------------------------------------------------------------
(* Properties of PerfStat                                                  *)

\* a detach delivered to the device right after a completed attach
DetachOfAttached ==
    /\ perf_last = "detach"
    /\ perf_prev = <<"attach", "returned">>

\* C12: detach_from_node on an attached device completes and closes the log
\* handle, whether the process exits within the wait of 10, the wait times
\* out, or the process had exited before the interrupt; the timeout surfaces
\* as a warning only.
C12_DetachAlwaysCompletes ==
    DetachOfAttached =>
        /\ perf_outcome = "returned"
        /\ perf_path \in {"exited_in_time", "timeout", "already_exited"}
        /\ ~logs[Get(perf_log)].open
        /\ perf_warned <=> perf_path = "timeout"

\* the wait timed out, the warning was logged, the log is closed
C12_Witness ==
    /\ DetachOfAttached
    /\ perf_path = "timeout"
    /\ perf_warned
    /\ perf_outcome = "returned"
    /\ ~logs[Get(perf_log)].open

----------------------------------------------------------------------------
(* Properties of the environment-info devices                              *)

\* the nodes of the node-info response that declare attribute k
Declaring(k) == { i \in 1..Len(ei_info) :
                    /\ "attributes" \in DOMAIN ei_info[i]
                    /\ k \in DOMAIN ei_info[i].attributes }

DeclaredValues(k) == { ei_info[i].attributes[k] : i \in Declaring(k) }

AllAttributeKeys == { AttributeKeys[j] : j \in 1..Len(AttributeKeys) }

ClusterEntries(k) == { j \in 1..Len(ei_calls) :
                         ei_calls[j].scope = "cluster" /\ ei_calls[j].key = <<"attribute_", k>> }

\* C13: every attribute of every node is recorded as node-level meta-info
\* attribute_<key>, and a cluster-level attribute_<key> is written if and only
\* if the distinct values over the nodes declaring the key are exactly one
\* (then with that value).
C13_AttributeReconciliation ==
    ei_outcome = "returned" =>
        \A k \in AllAttributeKeys :
            /\ \A i \in Declaring(k) :
                  Occurrences(ei_calls, [scope |-> "node", node |-> ei_info[i].name,
                                         key |-> <<"attribute_", k>>,
                                         value |-> ei_info[i].attributes[k]]) = 1
            /\ ClusterEntries(k) # {} <=> Cardinality(DeclaredValues(k)) = 1
            /\ \A j \in ClusterEntries(k) : DeclaredValues(k) = { ei_calls[j].value }
            /\ Cardinality(ClusterEntries(k)) <= 1

\* two nodes disagree on "group" (no cluster entry) while "rack", declared
\* by one of them, is pushed up
C13_Witness ==
    /\ ei_outcome = "returned"
    /\ Cardinality(Declaring("group")) = 2
    /\ Cardinality(DeclaredValues("group")) = 2
    /\ ClusterEntries("group") = {}
    /\ ClusterEntries("rack") # {}

\* C14: ExternalEnvironmentInfo.attach_to_cluster records host_name =
\* "unknown" for a node without the host field and the host for a node with
\* it; the missing field neither makes the hook raise nor suppresses the
\* node's other entries.
C14_HostFallback ==
    ei_device = "external" =>
        /\ ei_outcome = "returned"
        /\ \A i \in 1..Len(ei_stats) :
            /\ Occurrences(ei_calls,
                   [scope |-> "node", node |-> ei_stats[i].name, key |-> <<"host_name">>,
                    value |-> IF "host" \in DOMAIN ei_stats[i]
                              THEN ei_stats[i].host ELSE "unknown"]) = 1
            /\ Cardinality({ j \in 1..Len(ei_calls) :
                   ei_calls[j].node = ei_stats[i].name /\ ei_calls[j].key = <<"host_name">> }) = 1
            /\ Occurrences(ei_calls,
                   [scope |-> "node", node |-> ei_stats[i].name, key |-> <<"node_name">>,
                    value |-> ei_stats[i].name]) = 1
        /\ \A i \in 1..Len(ei_info) :
              \E j \in 1..Len(ei_calls) :
                  ei_calls[j].node = ei_info[i].name /\ ei_calls[j].key = <<"os_name">>

\* a node without host next to a node with host, both recorded
C14_Witness ==
    /\ ei_device = "external"
    /\ ei_outcome = "returned"
    /\ \E i, j \in 1..Len(ei_stats) :
        /\ "host" \notin DOMAIN ei_stats[i]
        /\ "host" \in DOMAIN ei_stats[j]
    /\ \E j \in 1..Len(ei_calls) :
          ei_calls[j].key = <<"host_name">> /\ ei_calls[j].value = "unknown"
    /\ Len(ei_info) >= 1

----------------------------------------------------------------------------
(* Properties of IndexStats                                                *)

\* the observation a resolved value v of table entry e is reported as
ExpectedObservation(e, v) ==
    IF e.metric_key = "segments_count"
    THEN PutCountClusterLevel(e.metric_key, v)
    ELSE PutValueClusterLevel(e.metric_key, v, e.unit)

\* C15: after on_benchmark_stop, for every path of the table an observation
\* of its metric exists if and only if the path resolves in the response
\* (zero included); segments_count is a cluster-level count, every other
\* metric a cluster-level value with unit byte or ms.
C15_ObservationIffResolves ==
    ix_outcome = "returned" =>
        \A n \in 1..Len(IndexStatsPaths) :
            LET e == IndexStatsPaths[n]
                found == extract_value(ix_stats, e.path)
            IN  /\ (\E j \in 1..Len(ix_calls) : ix_calls[j].name = e.metric_key) <=> found # None
                /\ found # None => Occurrences(ix_calls, ExpectedObservation(e, Get(found))) = 1
                /\ e.metric_key # "segments_count" => e.unit \in {"byte", "ms"}

----------------------------------------------------------------------------
(* Properties of IndexSize                                                 *)

\* the number of detach_from_cluster hooks among the first n hooks
RECURSIVE DetachesAmong(_)
DetachesAmong(n) ==
    IF n = 0 THEN 0
    ELSE DetachesAmong(n - 1) + (IF is_hooks[n] = "detach_from_cluster" THEN 1 ELSE 0)

\* C16: without a configured data path the device makes no metrics-store
\* call, no size-of-path call and no listing call, whatever hooks are
\* invoked (start, stop, detach included).
C16_NoDataPathNoCalls ==
    is_paths = None => is_trace = <<>>

C16_Witness ==
    /\ is_paths = None
    /\ is_hooks = <<"on_benchmark_start", "on_benchmark_stop", "detach_from_cluster">>
    /\ is_outcome = "returned"
    /\ is_trace = <<>>

\* C17: with a configured data path, start and stop emit nothing and every
\* detach_from_cluster measures the first configured path once, reports that
\* size once as cluster-level count final_index_size_bytes with unit byte and
\* then lists that same path once.
C17_SizeThenListing ==
    (is_paths # None /\ Get(is_paths) # <<>>) =>
        /\ Len(is_trace) = 3 * DetachesAmong(Len(is_hooks))
        /\ \A d \in 1..DetachesAmong(Len(is_hooks)) :
            LET measured == is_trace[3 * d - 2]
            IN  /\ measured = GetSize(Get(is_paths)[1], measured.value)
                /\ is_trace[3 * d - 1] =
                       PutCountClusterLevelUnit("final_index_size_bytes", measured.value, "byte")
                /\ is_trace[3 * d] = RunSubprocessWithLogging(Get(is_paths)[1])

C17_Witness ==
    /\ is_paths # None
    /\ Get(is_paths) # <<>>
    /\ Len(Get(is_paths)) = 2
    /\ is_hooks = <<"on_benchmark_start", "on_benchmark_stop", "detach_from_cluster">>
    /\ Len(is_trace) = 3
    /\ is_trace[2].value = MaxSize

----------------------------------------------------------------------------
(* Further properties of NodeStats                                         *)

\* C18 (NodeStats): a node-stats response with an entry that lacks the
\* jvm.gc.collectors fields is MissingData, so the hook reading it returns
\* normally.
C18_MissingDataContained ==
    (ns_last \in {"start", "stop"} /\ ns_missing) => ns_outcome = "returned"

\* the last four hooks were start, stop, start, stop, each returning
SecondRunReported == StartThenStop /\ ns_rerun # "no"

\* C20: after a stop that reported, no start snapshot is held; and the
\* node-level deltas reported by the stop of a second run are those against
\* the snapshot of that run's own start, for exactly the nodes in both.
C20_BaselineClearedByStop ==
    /\ (ns_last = "stop" /\ ns_outcome = "returned") => gc_times_per_node = None
    /\ SecondRunReported =>
        /\ \A j \in 1..Len(ns_calls) :
              ns_calls[j].op = "put_value_node_level" =>
                  /\ ns_calls[j].node \in NodesInBoth
                  /\ ns_calls[j].name = "node_young_gen_gc_time" =>
                        ns_calls[j].value = YoungDelta[ns_calls[j].node]
                  /\ ns_calls[j].name = "node_old_gen_gc_time" =>
                        ns_calls[j].value = OldDelta[ns_calls[j].node]
        /\ Cardinality({ j \in 1..Len(ns_calls) : ns_calls[j].op = "put_value_node_level" })
               = 2 * Cardinality(NodesInBoth)

\* a second run whose start read other values than the first run's baseline
C20_Witness ==
    /\ SecondRunReported
    /\ ns_rerun = "changed"
    /\ gc_times_per_node = None
    /\ \E n \in NodesInBoth : YoungDelta[n] > 0

----------------------------------------------------------------------------
(* Properties of DiskIo                                                    *)

\* the latest hook is a stop of an attached device directly after its start
StopAfterAttachAndStart ==
    /\ dio_last = "stop"
    /\ dio_prev = <<"start", "returned">>
    /\ dio_process # None

BothEndsProcessScoped == process_start # None /\ process_end # None

ExpectedReadBytes ==
    IF BothEndsProcessScoped
    THEN Get(process_end).read_bytes - Get(process_start).read_bytes
    ELSE Get(disk_end).read_bytes - Get(disk_start).read_bytes

ExpectedWriteBytes ==
    IF BothEndsProcessScoped
    THEN Get(process_end).write_bytes - Get(process_start).write_bytes
    ELSE Get(disk_end).write_bytes - Get(disk_start).write_bytes

\* C19: on_benchmark_stop after attach and start reports, for the attached
\* node, exactly the two node-level counts disk_io_write_bytes and
\* disk_io_read_bytes (unit byte); each is the process delta when process
\* counters were read at both ends and the whole-disk delta otherwise.
C19_ProcessDeltaElseDiskDelta ==
    StopAfterAttachAndStart =>
        /\ dio_outcome = "returned"
        /\ Len(dio_calls) = 2
        /\ Occurrences(dio_calls, PutCountNodeLevel(Get(dio_node), "disk_io_write_bytes",
                                                    ExpectedWriteBytes, "byte")) = 1
        /\ Occurrences(dio_calls, PutCountNodeLevel(Get(dio_node), "disk_io_read_bytes",
                                                    ExpectedReadBytes, "byte")) = 1

\* process counters at the stop only: the whole-disk delta is reported and
\* differs from the process reading
C19_Witness ==
    /\ StopAfterAttachAndStart
    /\ process_start = None
    /\ process_end # None
    /\ dio_outcome = "returned"
    /\ ExpectedReadBytes = MaxCounter
    /\ Get(process_end).read_bytes = 0
    /\ \E j \in 1..Len(dio_calls) :
          dio_calls[j].name = "disk_io_read_bytes" /\ dio_calls[j].value = MaxCounter

\* C21: after an on_benchmark_stop that has reported, the device holds neither
\* the whole-disk start snapshot nor the process start snapshot.
C21_BaselineClearedByStop ==
    (/\ dio_last = "stop"
     /\ dio_outcome = "returned"
     /\ Len(dio_calls) = 2) =>
        /\ disk_start = None
        /\ process_start = None

\* C33 (as claimed): a start of an attached device logs the mode once and a
\* stop logs none; when the start logged the accurate mode, the following
\* stop reports the process deltas, and when it logged the degraded mode, the
\* whole-disk deltas.
C33_LoggedModeAgrees ==
    /\ Len(dio_log) <= 1
    /\ (dio_last = "start" /\ dio_process # None) => Len(dio_log) = 1
    /\ (StopAfterAttachAndStart /\ dio_log = <<"accurate">>) =>
        /\ process_start # None
        /\ process_end # None
        /\ \A j \in 1..Len(dio_calls) :
            /\ dio_calls[j].name = "disk_io_read_bytes" =>
                  dio_calls[j].value = Get(process_end).read_bytes - Get(process_start).read_bytes
            /\ dio_calls[j].name = "disk_io_write_bytes" =>
                  dio_calls[j].value = Get(process_end).write_bytes - Get(process_start).write_bytes
    /\ (StopAfterAttachAndStart /\ dio_log = <<"degraded">>) =>
        \A j \in 1..Len(dio_calls) :
            /\ dio_calls[j].name = "disk_io_read_bytes" =>
                  dio_calls[j].value = Get(disk_end).read_bytes - Get(disk_start).read_bytes
            /\ dio_calls[j].name = "disk_io_write_bytes" =>
                  dio_calls[j].value = Get(disk_end).write_bytes - Get(disk_start).write_bytes

----------------------------------------------------------------------------
(* Further properties of the registry                                      *)

\* the positions of the hooks invoked by the current call
CalledSet == { called[j] : j \in 1..Len(called) }

\* C22: when the hook of an enabled device raises during a lifecycle event,
\* the call ends with that error; the failing hook was invoked once, no hook
\* of a later device is invoked, and the hooks of the earlier enabled devices
\* have all been invoked and have returned.
C22_HookErrorPropagates ==
    (event \in LifecycleEvents /\ failed # 0) =>
        /\ result = "raised"
        /\ active = {}
        /\ _enabled(devices[failed])
        /\ Cardinality({ j \in 1..Len(called) : called[j] = failed }) = 1
        /\ \A i \in 1..Len(devices) : i > failed => i \notin CalledSet
        /\ \A i \in 1..Len(devices) : (i < failed /\ _enabled(devices[i])) => i \in CalledSet
        /\ returned = SubSeq(called, 1, Len(called) - 1)
        /\ called[Len(called)] = failed

\* the second of three enabled devices raised
C22_Witness ==
    /\ event \in LifecycleEvents
    /\ result = "raised"
    /\ failed = 2
    /\ Len(devices) = 3
    /\ _enabled(devices[3])
    /\ returned = <<1>>
    /\ called = <<1, 2>>

----------------------------------------------------------------------------
(* Properties of the instrumentation devices                               *)

\* C23: when the log directory cannot be created while an enabled jit, gc or
\* jfr device handles instrument_env, instrument_candidate_env ends with that
\* error: nothing is returned, the directory creation was attempted once and
\* no device registered after the failing one is asked.
C23_SetupFailureAborts ==
    (event = "instrument_env" /\ failed # 0) =>
        /\ result = "raised"
        /\ env_returned = None
        /\ env_attempts = 1
        /\ devices[failed].command \in EnvCommands
        /\ Cardinality({ j \in 1..Len(called) : called[j] = failed }) = 1
        /\ \A i \in 1..Len(devices) : i > failed => i \notin CalledSet

\* the first of two enabled devices could not create the directory
C23_Witness ==
    /\ event = "instrument_env"
    /\ env_before = "uncreatable"
    /\ failed = 1
    /\ Len(devices) = 2
    /\ _enabled(devices[2])
    /\ ~devices[2].internal
    /\ called = <<1>>
    /\ env_returned = None

\* log_file occurs in the flag string
Embeds(flags, log_file) ==
    \E i \in 1..Len(flags) :
        /\ i + Len(log_file) - 1 <= Len(flags)
        /\ SubSeq(flags, i, i + Len(log_file) - 1) = log_file

\* the log path of a device for the arguments of the latest call
ExpectedLogPath(command) ==
    << ChallengeRootDir, "/", MetricsLogDir, "/", env_args[1], "-", env_args[2],
       LogSuffix(command) >>

\* C30: every instrument_env of a jit, gc or jfr device returns a one-entry
\* mapping of ES_JAVA_OPTS to a flag string embedding the log path made of
\* log directory, candidate name and run id; it is the mapping the device
\* returned the first time for these arguments; and a call made while the
\* log directory exists succeeds.
C30_InstrumentEnvStateless ==
    event = "instrument_env" =>
        /\ \A j \in 1..Len(env_results) :
              LET d == devices[env_results[j].pos]
                  env == env_results[j].env
              IN  ~d.internal =>
                    /\ DOMAIN env = {"ES_JAVA_OPTS"}
                    /\ Embeds(env["ES_JAVA_OPTS"], ExpectedLogPath(d.command))
                    /\ env = env_memo[<<d.command, env_args[1], env_args[2]>>]
        /\ env_before = "present" =>
              /\ result = "returned"
              /\ Len(env_results) = Len(EnabledPositions)

\* a repeated call, made while the directory exists, returned the mapping again
C30_Witness ==
    /\ event = "instrument_env"
    /\ env_repeated
    /\ env_before = "present"
    /\ result = "returned"
    /\ \E j \in 1..Len(env_results) :
          /\ ~devices[env_results[j].pos].internal
          /\ env_results[j].env = env_memo[<<devices[env_results[j].pos].command,
                                             env_args[1], env_args[2]>>]

----------------------------------------------------------------------------
(* Further properties of PerfStat                                          *)

\* C24: a returned attach leaves the device Attached (process handle, node
\* and open log handle recorded, the process new and running); a detach
\* from Attached sends exactly one interrupt to that process and leaves the
\* device Detached: no open log handle and no process handle left to signal.
C24_DetachedAttachedDetached ==
    /\ (perf_last = "attach" /\ perf_outcome = "returned") =>
          /\ perf_process # None /\ perf_node # None /\ perf_log # None
          /\ Get(perf_process) = Len(procs)
          /\ procs[Get(perf_process)].interrupts = 0
          /\ logs[Get(perf_log)].open
    /\ DetachOfAttached =>
          /\ perf_outcome = "returned"
          /\ procs[Len(procs)].interrupts = 1
          /\ perf_process = None
          /\ perf_log = None \/ ~logs[Get(perf_log)].open

\* C25: when a detach of an attached device returns, the profiling process
\* has terminated and the log file is closed, on the timeout path too.
C25_ReleasedOnEveryPath ==
    (DetachOfAttached /\ perf_outcome = "returned") =>
        /\ procs[Get(perf_process)].state # "running"
        /\ ~logs[Get(perf_log)].open

----------------------------------------------------------------------------
(* Further properties of CpuUsage                                          *)

\* C26: once finish() has set the stop flag, the sampler puts at most one
\* further observation (that of the iteration in flight) and starts no
\* measurement anymore.
C26_CooperativeCancellation ==
    \A s \in 1..Len(samplers) :
        /\ samplers[s].afterStop <= 1
        /\ ~samplers[s].lateMeasure

\* the flag was set during an iteration, whose observation was still put
C26_Witness ==
    \E s \in 1..Len(samplers) :
        /\ samplers[s].stop
        /\ samplers[s].afterStop = 1
        /\ samplers[s].pc = "done"
        /\ ~samplers[s].faulted

\* C28: without an attached node no sampler is started, stop has nothing to
\* wait for and no observation exists; every observation carries the node
\* its sampler was started for.
C28_SamplerOnlyWithNode ==
    /\ cpu_node = None => (samplers = <<>> /\ cpu_sampler = None /\ cpu_obs = {} /\ cpu_pc = "idle")
    /\ \A o \in cpu_obs : o.node = samplers[o.sampler].node

\* an observation of a sampler started for one node, the device being
\* attached to another node by now
C28_Witness ==
    /\ cpu_node # None
    /\ \E o \in cpu_obs : o.node # Get(cpu_node) /\ o.node = samplers[o.sampler].node

\* C27: with fair scheduling and returning calls, an on_benchmark_stop that
\* has set the flag leads to the sampler having left its loop and to
\* on_benchmark_stop returning; and on_benchmark_stop returns only when the
\* sampler has left its loop (it is never cut short).
C27_ShutdownTerminates ==
    /\ (cpu_pc = "joining") ~>
          (cpu_pc = "idle" /\ cpu_sampler # None /\ samplers[Get(cpu_sampler)].pc = "done")
    /\ [][(cpu_pc = "joining" /\ cpu_pc' = "idle") =>
             samplers[Get(cpu_sampler)].pc = "done"]_vars

\* on_benchmark_stop returned after waiting for a sampler that was measuring
C27_Witness ==
    /\ cpu_pc = "idle"
    /\ cpu_quiet
    /\ cpu_sampler # None
    /\ samplers[Get(cpu_sampler)].pc = "done"
    /\ samplers[Get(cpu_sampler)].afterStop = 1

\* the metrics ExternalEnvironmentInfo reads from a node-info entry, each with
\* the two keys of its path
NodeInfoMetrics ==
    { <<"os_name", "os", "name">>, <<"os_version", "os", "version">>,
      <<"cpu_logical_cores", "os", "available_processors">>,
      <<"jvm_vendor", "jvm", "vm_vendor">>, <<"jvm_version", "jvm", "version">> }

\* the value a metric of a node-info entry has to be recorded with
NodeInfoValue(node, m) ==
    IF m[2] \in DOMAIN node /\ m[3] \in DOMAIN node[m[2]]
    THEN node[m[2]][m[3]]
    ELSE "unknown"

\* C29: ExternalEnvironmentInfo.attach_to_cluster returns, and for every
\* node-info entry and each of the five metric paths exactly one node-level
\* entry of that metric is recorded for the node; its value is the value at
\* the path, or "unknown" when a key of the path is missing at either depth.
C29_NodeInfoFallback ==
    ei_device = "external" =>
        /\ ei_outcome = "returned"
        /\ \A i \in 1..Len(ei_info) : \A m \in NodeInfoMetrics :
            LET entries == { j \in 1..Len(ei_calls) :
                                /\ ei_calls[j].node = ei_info[i].name
                                /\ ei_calls[j].key = <<m[1]>> }
            IN  /\ Cardinality(entries) = 1
                /\ \A j \in entries :
                    /\ ei_calls[j].scope = "node"
                    /\ ei_calls[j].value = NodeInfoValue(ei_info[i], m)

\* one entry lacks the whole "os" object, another only "os.version", and a
\* found value is recorded next to the substituted ones
C29_Witness ==
    /\ ei_device = "external"
    /\ ei_outcome = "returned"
    /\ \E i, k \in 1..Len(ei_info) :
        /\ "os" \notin DOMAIN ei_info[i]
        /\ "os" \in DOMAIN ei_info[k]
        /\ "version" \notin DOMAIN ei_info[k].os
        /\ \E j \in 1..Len(ei_calls) :
            /\ ei_calls[j].node = ei_info[i].name
            /\ ei_calls[j].key = <<"os_name">>
            /\ ei_calls[j].value = "unknown"
        /\ \E j \in 1..Len(ei_calls) :
            /\ ei_calls[j].node = ei_info[k].name
            /\ ei_calls[j].key = <<"os_name">>
            /\ ei_calls[j].value = "Linux"

\* the metric keys try_store_node_info is called with, in call order
NodeInfoKeyOrder ==
    << <<"os_name">>, <<"os_version">>, <<"cpu_logical_cores">>,
       <<"jvm_vendor">>, <<"jvm_version">> >>

NodeInfoKeys == { NodeInfoKeyOrder[n] : n \in 1..Len(NodeInfoKeyOrder) }

\* the part of attach_to_cluster a recorded entry belongs to
WritePhase(c) ==
    CASE c.scope = "cluster" /\ c.key = <<"source_revision">> -> 1
      [] c.scope = "cluster" /\ c.key = <<"distribution_version">> -> 2
      [] c.scope = "node" /\ c.key \in { <<"node_name">>, <<"host_name">> } -> 3
      [] c.scope = "node" /\ c.key \in NodeInfoKeys -> 4
      [] c.scope = "node" /\ Head(c.key) = "attribute_" -> 5
      [] c.scope = "cluster" /\ Head(c.key) = "attribute_" -> 6
      [] OTHER -> 0

\* C31: ExternalEnvironmentInfo.attach_to_cluster writes source_revision,
\* then distribution_version, then node_name directly followed by host_name
\* for each node, then for each node the five node-info metrics in their
\* order, then the node-level attribute entries, and the cluster-level
\* attribute entries after every node-level attribute entry.
C31_MetaInfoOrder ==
    ei_device = "external" =>
        /\ Len(ei_calls) >= 2
        /\ WritePhase(ei_calls[1]) = 1
        /\ WritePhase(ei_calls[2]) = 2
        /\ \A j \in 1..Len(ei_calls) : WritePhase(ei_calls[j]) # 0
        /\ \A i, j \in 1..Len(ei_calls) :
              i < j => WritePhase(ei_calls[i]) <= WritePhase(ei_calls[j])
        /\ \A j \in 1..Len(ei_calls) :
              ei_calls[j].key = <<"node_name">> =>
                  /\ j < Len(ei_calls)
                  /\ ei_calls[j + 1].key = <<"host_name">>
                  /\ ei_calls[j + 1].node = ei_calls[j].node
        /\ \A j \in 1..Len(ei_calls) :
              ei_calls[j].key = <<"os_name">> =>
                  /\ j + 4 <= Len(ei_calls)
                  /\ \A n \in 1..5 :
                        /\ ei_calls[j + n - 1].key = NodeInfoKeyOrder[n]
                        /\ ei_calls[j + n - 1].node = ei_calls[j].node
        /\ Cardinality({ j \in 1..Len(ei_calls) : WritePhase(ei_calls[j]) = 3 })
              = 2 * Len(ei_stats)
        /\ Cardinality({ j \in 1..Len(ei_calls) : WritePhase(ei_calls[j]) = 4 })
              = 5 * Len(ei_info)

\* two nodes with attributes: node-level attribute entries of both nodes and
\* a cluster-level attribute entry have been written after the per-node ones
C31_Witness ==
    /\ ei_device = "external"
    /\ ei_outcome = "returned"
    /\ Len(ei_stats) >= 1
    /\ Cardinality({ ei_calls[j].node : j \in { n \in 1..Len(ei_calls) :
                         WritePhase(ei_calls[n]) = 5 } }) >= 2
    /\ \E j \in 1..Len(ei_calls) : WritePhase(ei_calls[j]) = 6

\* the latest hook is a stop that read a cluster of at least one node, directly
\* after a stop that returned, and a start has returned before them
SecondStopInARow ==
    /\ ns_last = "stop"
    /\ ns_prev = <<"stop", "returned">>
    /\ ns_start # None
    /\ ~ns_missing
    /\ ns_end # None
    /\ DOMAIN Get(ns_end) # {}

\* C32 (as claimed): in on_benchmark_start, on_benchmark_stop,
\* on_benchmark_stop with a cluster of at least one node, the second stop
\* returns normally and reports no node-level GC delta.
C32_RepeatedStopReturns ==
    SecondStopInARow =>
        /\ ns_outcome = "returned"
        /\ \A j \in 1..Len(ns_calls) : ns_calls[j].op # "put_value_node_level"

\* every attach that returned has been followed by a detach for its node, and
\* no detach was delivered without one
Balanced ==
    /\ Len(procs) >= 1
    /\ \A n \in NodeNames : perf_pending[n] = 0
    /\ ~perf_unmatched

\* C34 (as claimed): a detach delivered for a node that has an attach
\* outstanding signals a process spawned for that node; and when the last
\* detach of a balanced sequence has returned, every spawned process has been
\* sent the interrupt and every opened log handle is closed.
C34_BalancedSequenceReleasesAll ==
    /\ (/\ perf_last = "detach"
        /\ ~perf_unmatched
        /\ perf_path \in {"already_exited", "exited_in_time", "timeout"}) =>
          procs[Get(perf_process)].node = Get(perf_arg)
    /\ (perf_last = "detach" /\ perf_outcome = "returned" /\ Balanced) =>
          /\ \A p \in 1..Len(procs) : procs[p].interrupts >= 1
          /\ \A l \in 1..Len(logs) : ~logs[l].open

\* C35: CpuUsage and DiskIo hold the node of the latest attach_to_node and
\* nothing of an earlier one; a sampler is bound to the node attached last
\* when it was started and its observations carry that node; the counts of a
\* DiskIo stop are reported for the node attached last.
C35_SingleNodeRemembered ==
    /\ cpu_node = cpu_attached
    /\ \A s \in 1..Len(samplers) : Some(samplers[s].node) = samplers[s].attached
    /\ \A o \in cpu_obs : Some(o.node) = samplers[o.sampler].attached
    /\ dio_node = dio_attached.last
    /\ dio_process = dio_attached.last
    /\ dio_last = "stop" =>
          \A j \in 1..Len(dio_calls) :
              /\ Some(dio_calls[j].node) = dio_attached.last
              /\ dio_calls[j].node \notin dio_attached.earlier

\* DiskIo was attached to another node before the latest attach, and the stop
\* after the following start has reported its two counts for the latest node
C35_Witness ==
    /\ dio_last = "stop"
    /\ dio_prev = <<"start", "returned">>
    /\ dio_attached.earlier # {}
    /\ Len(dio_calls) = 2
    /\ \A j \in 1..Len(dio_calls) : Some(dio_calls[j].node) = dio_attached.last

\* CpuUsage was attached to two nodes in turn and a sampler started after
\* each attach has put an observation for the node attached at its start
C35_SamplerCase ==
    \E o1, o2 \in cpu_obs :
        /\ o1.sampler < o2.sampler
        /\ o1.node # o2.node
        /\ Some(o2.node) = cpu_attached

====
